---- MODULE Spec2Model ----
(***************************************************************************)
(* Model of logger-server's two stateful components:                       *)
(*   - the rate limiter (package ratelimit): RateLimiter.Middleware,       *)
(*     allow, evictOldest, cleanupLoop, cleanup, Stop;                     *)
(*   - the SQLite log store (package logger): NewSQLiteLogger, Write,      *)
(*     QueryLogs, cleanupLoop, cleanup, Close;                             *)
(* and of two functions of the request path in front of them:              *)
(*   - LogEntry.Validate (package internal);                               *)
(*   - ApiKeyMiddlewareWithLevel (package middleware).                     *)
(* The components share no state. RLSpec, RLConcSpec and RLStopSpec run    *)
(* the rate limiter, CtorSpec constructs it, RLCapSpec runs it with the    *)
(* maxClients values the constructor accepts and RLCapLiveSpec adds fair   *)
(* scheduling; StoreSpec, StoreConcSpec, StoreQuerySpec, RoundTripSpec and *)
(* ZoneSpec run the store, StoreLifeSpec runs it from before               *)
(* NewSQLiteLogger and StoreLiveSpec under fair scheduling; ValidateSpec   *)
(* and AuthSpec apply the two functions to each of their inputs.           *)
(***************************************************************************)
EXTENDS Integers, Sequences, FiniteSets, TLC

(***************************************************************************)
(* Bounds of the model.                                                    *)
(***************************************************************************)
MaxTime == 2        \* the clock runs 0..MaxTime
MaxAdmits == 3      \* requests entering RateLimiter.Middleware in one run
MaxStops == 2       \* calls of RateLimiter.Stop in one run

(***************************************************************************)
(* Configuration of the rate limiter, as the tests construct it.           *)
(***************************************************************************)
MaxRequestsCfg == 2     \* maxRequests
WindowCfg == 1          \* window, in clock units
MaxClientsCfg == 2      \* maxClients
ErrorLimitCfg == 1      \* perLevelLimits["ERROR"]

Keys == {"a", "b", "c"}          \* client IPs
Procs == {"p1", "p2"}            \* request goroutines
SeqProcs == {"p1"}               \* RLSpec: requests arrive one after another
ConcKeys == {"a", "b"}           \* RLConcSpec: the IPs of the concurrent requests
Sweeper == "sweeper"             \* the cleanupLoop goroutine

(***************************************************************************)
(* log_levels                                                              *)
(***************************************************************************)
orderMap ==
    ("TRACE" :> 0) @@ ("DEBUG" :> 1) @@ ("INFO" :> 2) @@
    ("WARN" :> 3) @@ ("ERROR" :> 4) @@ ("FATAL" :> 5)

allowedLogLevels == {"TRACE", "DEBUG", "INFO", "WARN", "ERROR", "FATAL"}

\* The header values the model sends, and strings.ToUpper on them.
RawLevels == {"debug", "INFO", "error", "bogus"}

ToUpper(s) ==
    CASE s = "debug" -> "DEBUG"
      [] s = "info"  -> "INFO"
      [] s = "warn"  -> "WARN"
      [] s = "error" -> "ERROR"
      [] s = "bogus" -> "BOGUS"
      [] OTHER       -> s

NormalizeLogLevel(level) == ToUpper(level)

\* A validation that lets every level through.
IsValidLogLevel_Any(level) == TRUE

IsValidLogLevel(level) == ToUpper(level) \in allowedLogLevels

\* A lookup that ranks a missing level above all others.
OrderOf_MissingIsHighest(l) == IF l \in DOMAIN orderMap THEN orderMap[l] ELSE 6

\* A Go map lookup of a missing key yields the zero value.
OrderOf(l) == IF l \in DOMAIN orderMap THEN orderMap[l] ELSE 0

\* A comparison under which no level is below another.
LevelLessThan_Never(a, b) == FALSE

LevelLessThan_Swapped(a, b) == OrderOf(b) < OrderOf(a)

LevelLessThan(a, b) == OrderOf(a) < OrderOf(b)

(***************************************************************************)
(* State of the rate limiter.                                              *)
(***************************************************************************)
VARIABLES
    requests,       \* rl.requests: ip -> [count, firstSeen]
    maxClients,     \* rl.maxClients
    now,            \* the clock time.Now() reads
    mu,             \* rl.mu: "free" or the goroutine holding it
    pc,             \* pc[p]: where request goroutine p is
    loc,            \* loc[p]: p's locals (ip, level, maxRequests, now, client)
    requestsTotal,  \* rl.requestsTotal
    blockedTotal,   \* rl.blockedTotal
    activeClients,  \* rl.activeClients
    loopPc,         \* where cleanupLoop is
    tickPending,    \* a tick is left in cleanupTicker.C after Stop
    quit,           \* rl.quit is closed (onceStop has run)
    win,            \* history: per tracked ip, the calls decided on its window:
                    \* how many (calls), how many allowed, the quota q they used,
                    \* whether all used the same, whether two were in flight at once
    last,           \* history: the last answer of Middleware, and what it saw
    stopCalls,      \* calls of Stop that have returned or panicked
    panicked,       \* close of a closed channel: the process has panicked
    cfg,            \* the arguments of NewRateLimiterWithLevel
    ctor            \* its outcome: "none" before the call, then "ok" or "error"

\* What only construction and Stop write.
ctlVars == <<stopCalls, panicked, cfg, ctor>>

rlVars == <<requests, maxClients, now, mu, pc, loc, requestsTotal,
            blockedTotal, activeClients, loopPc, tickPending, quit, win, last,
            ctlVars>>

\* The state of the SQLite log store (its operations are further down).
VARIABLES
    rows,           \* table logs, in id order: [id, level, message, timestamp, context]
    nextId,         \* the id AUTOINCREMENT gives the next row
    maxRows,        \* l.maxRows
    smu,            \* l.mu: "free" or the goroutine holding it
    spc,            \* spc[p]: where goroutine p is in Write or QueryLogs
    sloc,           \* sloc[p]: p's arguments, locals and result
    totalErrors,    \* l.totalErrors
    sloopPc,        \* where the store's cleanupLoop is
    cancelled,      \* cleanupCtx is done
    wg,             \* l.wg's counter
    dbClosed,       \* l.insertStmt and l.db are closed
    closePc,        \* where Close is
    closeRet,       \* what the calls of Close returned, in order
    nWrites,        \* calls of Write so far
    tieOrder,       \* the order the SQLite build returns rows of equal timestamp
                    \* in, which ORDER BY timestamp DESC leaves open: by id
                    \* "asc" or "desc"
    hist,           \* history: what the last sweep's DELETE did, the rows inserted
                    \* since the table was last known to hold at most maxRows
                    \* rows, whether Close found a sweep in flight
    opening         \* NewSQLiteLogger: what it returned, the handle sql.Open
                    \* gave it, and whether the database file has the table
                    \* logs and the index idx_logs_level_timestamp

storeVars == <<rows, nextId, maxRows, smu, spc, sloc, totalErrors, sloopPc,
               cancelled, wg, dbClosed, closePc, closeRet, nWrites, tieOrder,
               hist, opening>>

(***************************************************************************)
(* State of the request path in front of the store: the entry Validate is  *)
(* called on and what it returned, and the request ApiKeyMiddlewareWithLevel*)
(* serves and how it answered.                                             *)
(***************************************************************************)
VARIABLES
    logEntry,       \* the LogEntry: level, message, context
    validated,      \* Validate's result: the error, and e.Level afterwards
    authReq,        \* the request: X-Log-Level, X-API-Key, and the minLevel
    authResp        \* the answer: status, whether next ran, the audit event

edgeVars == <<logEntry, validated, authReq, authResp>>

minLevel == "INFO"

perLevelLimits == ("ERROR" :> ErrorLimitCfg)

\* p's locals in Middleware and allow; trackedAtEntry, sizeAtEntry, evicted and
\* wasOldest remember what the table was when allow took the lock.
NoLoc == [ip |-> "", level |-> "", maxReq |-> 0, now |-> 0, exists |-> FALSE,
          count |-> 0, firstSeen |-> 0, trackedAtEntry |-> FALSE,
          sizeAtEntry |-> 0, evicted |-> {}, wasOldest |-> TRUE]

NoLast == [kind |-> "none", ip |-> "", level |-> "", maxReq |-> 0, at |-> 0,
           existed |-> FALSE, prevCount |-> 0, prevFirstSeen |-> 0,
           trackedAtEntry |-> FALSE, sizeAtEntry |-> 0, evicted |-> {},
           wasOldest |-> TRUE, allowed |-> FALSE, retryAfter |-> 0,
           newCount |-> 0, newFirstSeen |-> 0, callNo |-> 0, sameQuota |-> TRUE]

Restrict(f, S) == [x \in S |-> f[x]]

Size(tbl) == Cardinality(DOMAIN tbl)

\* The ips evictOldest's scan can end on: those with the least firstSeen.
OldestKeys(tbl) ==
    {k \in DOMAIN tbl : \A j \in DOMAIN tbl : tbl[k].firstSeen <= tbl[j].firstSeen}

\* An eviction that removes any tracked client, not the oldest.
EvictOldest_Any(tbl, cap) ==
    IF Size(tbl) <= cap \/ DOMAIN tbl = {}
    THEN {tbl}
    ELSE {Restrict(tbl, DOMAIN tbl \ {k}) : k \in DOMAIN tbl}

\* An evictOldest that never deletes.
EvictOldest_Noop(tbl, cap) == {tbl}

\* evictOldest: the tables it can leave (map iteration order picks among ties).
EvictOldest(tbl, cap) ==
    IF Size(tbl) <= cap
    THEN {tbl}
    ELSE IF DOMAIN tbl = {}
         THEN {tbl}
         ELSE {Restrict(tbl, DOMAIN tbl \ {k}) : k \in OldestKeys(tbl)}

Expired_Late(at, firstSeen) == at - firstSeen > WindowCfg + 1

\* now.Sub(firstSeen) > rl.window
Expired(at, firstSeen) == at - firstSeen > WindowCfg

\* A quota check that never finds the count at the quota.
OverQuota_Never(count, maxRequests) == FALSE

OverQuota_OffByOne(count, maxRequests) == count > maxRequests

\* client.count >= maxRequests
OverQuota(count, maxRequests) == count >= maxRequests

CanLock_NoMutex == TRUE

\* sync.Mutex.Lock returns only when no goroutine holds the mutex.
CanLock == mu = "free"

\* Requests that have entered allow and have no answer yet.
InFlight == Cardinality({p \in Procs : pc[p] # "idle"})

\* A request is served by the first goroutine that is free.
GoroutineBefore(o, p) == o = "p1" /\ p = "p2"

RLInit ==
    /\ requests = <<>>
    /\ maxClients = MaxClientsCfg
    /\ now = 0
    /\ mu = "free"
    /\ pc = [p \in Procs |-> "idle"]
    /\ loc = [p \in Procs |-> NoLoc]
    /\ requestsTotal = 0
    /\ blockedTotal = 0
    /\ activeClients = 0
    /\ loopPc = "select"
    /\ tickPending = FALSE
    /\ quit = FALSE
    /\ win = <<>>
    /\ last = NoLast
    /\ stopCalls = 0
    /\ panicked = FALSE
    /\ cfg = [maxRequests |-> MaxRequestsCfg, window |-> WindowCfg,
              maxClients |-> MaxClientsCfg]
    /\ ctor = "ok"

(***************************************************************************)
(* RateLimiter.Middleware up to the call of allow, and allow's reading of  *)
(* the clock, which precedes rl.mu.Lock().                                 *)
(***************************************************************************)
\* A Middleware that ignores perLevelLimits.
EffectiveMax_BaselineOnly(level) == MaxRequestsCfg


EffectiveMax(level) ==
    IF level \in DOMAIN perLevelLimits THEN perLevelLimits[level] ELSE MaxRequestsCfg

Middleware(p, ip, levelStr) ==
    /\ pc[p] = "idle"
    /\ \A o \in Procs : pc[o] = "idle" => ~GoroutineBefore(o, p)
    /\ requestsTotal + blockedTotal + InFlight < MaxAdmits
    /\ LET level == NormalizeLogLevel(levelStr) IN
       IF LevelLessThan(level, minLevel)
       THEN /\ last' = [NoLast EXCEPT
                          !.kind = "pass", !.ip = ip, !.level = level,
                          !.allowed = TRUE,
                          !.existed = ip \in DOMAIN requests,
                          !.prevCount = IF ip \in DOMAIN requests
                                        THEN requests[ip].count ELSE 0]
            /\ UNCHANGED <<requests, maxClients, now, mu, pc, loc, requestsTotal,
                           blockedTotal, activeClients, loopPc, tickPending,
                           quit, win>>
       ELSE /\ loc' = [loc EXCEPT ![p] =
                          [NoLoc EXCEPT !.ip = ip, !.level = level,
                                        !.maxReq = EffectiveMax(level),
                                        !.now = now]]
            /\ pc' = [pc EXCEPT ![p] = "lock"]
            /\ UNCHANGED <<requests, maxClients, now, mu, requestsTotal,
                           blockedTotal, activeClients, loopPc, tickPending,
                           quit, win, last>>
    /\ UNCHANGED ctlVars
    /\ UNCHANGED storeVars
    /\ UNCHANGED edgeVars

(***************************************************************************)
(* allow, first half of the critical section: rl.mu.Lock(), the eviction   *)
(* before adding, and the lookup of the client.                            *)
(***************************************************************************)
AllowEnter(p) ==
    /\ pc[p] = "lock"
    /\ CanLock
    /\ LET ip == loc[p].ip
           needEvict == ip \notin DOMAIN requests /\ Size(requests) >= maxClients
       IN \E tbl \in (IF needEvict THEN EvictOldest(requests, maxClients)
                                   ELSE {requests}) :
            /\ requests' = tbl
            /\ win' = Restrict(win, DOMAIN win \cap DOMAIN tbl)
            /\ loc' = [loc EXCEPT ![p] =
                  [@ EXCEPT
                     !.exists = ip \in DOMAIN tbl,
                     !.count = IF ip \in DOMAIN tbl THEN tbl[ip].count ELSE 0,
                     !.firstSeen = IF ip \in DOMAIN tbl THEN tbl[ip].firstSeen ELSE 0,
                     !.trackedAtEntry = ip \in DOMAIN requests,
                     !.sizeAtEntry = Size(requests),
                     !.evicted = DOMAIN requests \ DOMAIN tbl,
                     !.wasOldest = (DOMAIN requests \ DOMAIN tbl) \subseteq
                                       OldestKeys(requests)]]
    /\ mu' = p
    /\ pc' = [pc EXCEPT ![p] = "decide"]
    /\ UNCHANGED <<maxClients, now, requestsTotal, blockedTotal,
                   activeClients, loopPc, tickPending, quit, last>>
    /\ UNCHANGED ctlVars
    /\ UNCHANGED storeVars
    /\ UNCHANGED edgeVars

(***************************************************************************)
(* allow, second half: the decision, the write of the table, the metrics,  *)
(* and the deferred rl.mu.Unlock().                                        *)
(***************************************************************************)
AllowDecide(p) ==
    /\ pc[p] = "decide"
    /\ LET l == loc[p]
           ip == l.ip
           live == ip \in DOMAIN requests /\ ~Expired(l.now, requests[ip].firstSeen)
           create == ~l.exists \/ Expired(l.now, l.firstSeen)
           deny == ~create /\ OverQuota(l.count, l.maxReq)
           tbl == IF create
                  THEN (ip :> [count |-> 1, firstSeen |-> l.now]) @@ requests
                  ELSE IF deny \/ ip \notin DOMAIN requests
                       THEN requests
                       ELSE [requests EXCEPT ![ip].count = l.count + 1]
           retry == IF deny THEN WindowCfg - (l.now - l.firstSeen) ELSE 0
           waiting == \E o \in Procs \ {p} : pc[o] # "idle" /\ loc[o].ip = ip
           w == IF live /\ ip \in DOMAIN win
                THEN [win EXCEPT ![ip] =
                        [calls |-> @.calls + 1,
                         allowed |-> @.allowed + (IF deny THEN 0 ELSE 1),
                         q |-> @.q,
                         same |-> @.same /\ @.q = l.maxReq,
                         racing |-> @.racing \/ waiting]]
                ELSE (ip :> [calls |-> 1, allowed |-> IF deny THEN 0 ELSE 1,
                             q |-> l.maxReq, same |-> TRUE,
                             racing |-> waiting]) @@ win
       IN /\ requests' = tbl
          /\ win' = Restrict(w, DOMAIN w \cap DOMAIN tbl)
          /\ activeClients' = IF create THEN Size(tbl) ELSE activeClients
          /\ requestsTotal' = IF deny THEN requestsTotal ELSE requestsTotal + 1
          /\ blockedTotal' = IF deny THEN blockedTotal + 1 ELSE blockedTotal
          /\ last' = [kind |-> "allow", ip |-> ip, level |-> l.level, maxReq |-> l.maxReq,
                      at |-> l.now,
                      existed |-> ip \in DOMAIN requests,
                      prevCount |-> IF ip \in DOMAIN requests
                                    THEN requests[ip].count ELSE 0,
                      prevFirstSeen |-> IF ip \in DOMAIN requests
                                        THEN requests[ip].firstSeen ELSE 0,
                      trackedAtEntry |-> l.trackedAtEntry,
                      sizeAtEntry |-> l.sizeAtEntry,
                      evicted |-> l.evicted,
                      wasOldest |-> l.wasOldest,
                      allowed |-> ~deny,
                      retryAfter |-> retry,
                      newCount |-> IF ip \in DOMAIN tbl THEN tbl[ip].count ELSE 0,
                      newFirstSeen |-> IF ip \in DOMAIN tbl
                                       THEN tbl[ip].firstSeen ELSE 0,
                      callNo |-> IF ip \in DOMAIN w THEN w[ip].calls ELSE 0,
                      sameQuota |-> IF ip \in DOMAIN w THEN w[ip].same ELSE TRUE]
    /\ mu' = "free"
    /\ pc' = [pc EXCEPT ![p] = "idle"]
    /\ loc' = [loc EXCEPT ![p] = NoLoc]
    /\ UNCHANGED <<maxClients, now, loopPc, tickPending, quit>>
    /\ UNCHANGED ctlVars
    /\ UNCHANGED storeVars
    /\ UNCHANGED edgeVars

(***************************************************************************)
(* The clock.                                                              *)
(***************************************************************************)
Tick ==
    /\ now < MaxTime
    /\ now' = now + 1
    /\ UNCHANGED <<requests, maxClients, mu, pc, loc, requestsTotal,
                   blockedTotal, activeClients, loopPc, tickPending, quit, win, last>>
    /\ UNCHANGED ctlVars
    /\ UNCHANGED storeVars
    /\ UNCHANGED edgeVars

(***************************************************************************)
(* cleanupLoop: the select, and cleanup in its steps.                      *)
(***************************************************************************)
LoopQuit ==
    /\ loopPc = "select"
    /\ quit
    /\ loopPc' = "exited"
    /\ UNCHANGED <<requests, maxClients, now, mu, pc, loc, requestsTotal,
                   blockedTotal, activeClients, tickPending, quit,
                   win, last>>
    /\ UNCHANGED ctlVars
    /\ UNCHANGED storeVars
    /\ UNCHANGED edgeVars

\* case <-rl.cleanupTicker.C, then cleanup: rl.mu.Lock(), now := time.Now(), and
\* the deletion of expired clients. Until Stop the ticker can fire at any time;
\* after it only a tick already waiting in the channel can be received.
CleanupExpire ==
    /\ loopPc = "select"
    /\ ~quit \/ tickPending
    /\ tickPending' = FALSE
    /\ CanLock
    /\ mu' = Sweeper
    /\ LET keep == {k \in DOMAIN requests : ~Expired(now, requests[k].firstSeen)}
       IN /\ requests' = Restrict(requests, keep)
          /\ win' = Restrict(win, DOMAIN win \cap keep)
    /\ loopPc' = "evict"
    /\ UNCHANGED <<maxClients, now, pc, loc, requestsTotal, blockedTotal,
                   activeClients, quit, last>>
    /\ UNCHANGED ctlVars
    /\ UNCHANGED storeVars
    /\ UNCHANGED edgeVars

\* A cleanup that returns without setting the gauge.
CleanupEvict_NoGauge ==
    /\ loopPc = "evict"
    /\ IF Size(requests) > maxClients
       THEN /\ \E tbl \in EvictOldest(requests, maxClients) :
                 /\ requests' = tbl
                 /\ win' = Restrict(win, DOMAIN win \cap DOMAIN tbl)
            /\ UNCHANGED <<mu, loopPc, activeClients>>
       ELSE /\ mu' = "free"
            /\ loopPc' = "select"
            /\ UNCHANGED <<requests, win, activeClients>>
    /\ UNCHANGED <<maxClients, now, pc, loc, requestsTotal, blockedTotal,
                   tickPending, quit, last>>
    /\ UNCHANGED ctlVars
    /\ UNCHANGED storeVars
    /\ UNCHANGED edgeVars

\* cleanup: for len(rl.requests) > rl.maxClients { rl.evictOldest() }, then the
\* gauge and the deferred rl.mu.Unlock().
CleanupEvict ==
    /\ loopPc = "evict"
    /\ IF Size(requests) > maxClients
       THEN /\ \E tbl \in EvictOldest(requests, maxClients) :
                 /\ requests' = tbl
                 /\ win' = Restrict(win, DOMAIN win \cap DOMAIN tbl)
            /\ UNCHANGED <<mu, loopPc, activeClients>>
       ELSE /\ activeClients' = Size(requests)
            /\ mu' = "free"
            /\ loopPc' = "select"
            /\ UNCHANGED <<requests, win>>
    /\ UNCHANGED <<maxClients, now, pc, loc, requestsTotal, blockedTotal,
                   tickPending, quit, last>>
    /\ UNCHANGED ctlVars
    /\ UNCHANGED storeVars
    /\ UNCHANGED edgeVars

\* sync.Once.Do runs its function on the first call only; onceStop has run
\* exactly when rl.quit is closed.
OnceRuns_EveryCall == TRUE

OnceRuns == ~quit

\* Stop: onceStop.Do(close(rl.quit); rl.cleanupTicker.Stop()). The ticker may
\* have left a tick in its channel before it was stopped. Stop does not wait
\* for cleanupLoop. Closing a closed channel panics.
Stop ==
    /\ stopCalls < MaxStops
    /\ ~panicked
    /\ stopCalls' = stopCalls + 1
    /\ IF OnceRuns
       THEN IF quit
            THEN /\ panicked' = TRUE
                 /\ UNCHANGED <<quit, tickPending>>
            ELSE /\ quit' = TRUE
                 /\ tickPending' \in BOOLEAN
                 /\ UNCHANGED panicked
       ELSE UNCHANGED <<quit, tickPending, panicked>>
    /\ UNCHANGED <<requests, maxClients, now, mu, pc, loc, requestsTotal,
                   blockedTotal, activeClients, loopPc, win, last, cfg, ctor>>
    /\ UNCHANGED storeVars
    /\ UNCHANGED edgeVars

(***************************************************************************)
(* RLSpec: one request at a time from three clients, with the clock and    *)
(* the cleanup goroutine running beside it.                                *)
(***************************************************************************)
RLNext ==
    \/ \E p \in SeqProcs, ip \in Keys, levelStr \in RawLevels :
            Middleware(p, ip, levelStr)
    \/ \E p \in SeqProcs : AllowEnter(p)
    \/ \E p \in SeqProcs : AllowDecide(p)
    \/ Tick
    \/ CleanupExpire
    \/ CleanupEvict


(***************************************************************************)
(* RLConcSpec: two request goroutines in flight at once.                   *)
(***************************************************************************)
RLConcNext ==
    \/ \E p \in Procs, ip \in ConcKeys, levelStr \in RawLevels :
            Middleware(p, ip, levelStr)
    \/ \E p \in Procs : AllowEnter(p)
    \/ \E p \in Procs : AllowDecide(p)
    \/ Tick
    \/ CleanupExpire
    \/ CleanupEvict

(***************************************************************************)
(* RLStopSpec: the limiter with Stop called beside the requests and the    *)
(* cleanup goroutine.                                                      *)
(***************************************************************************)
\* The header values of the requests made beside Stop.
StopLevels == {"debug", "INFO"}

RLStopNext ==
    \/ \E p \in SeqProcs, ip \in ConcKeys, levelStr \in StopLevels :
            Middleware(p, ip, levelStr)
    \/ \E p \in SeqProcs : AllowEnter(p)
    \/ \E p \in SeqProcs : AllowDecide(p)
    \/ Tick
    \/ CleanupExpire
    \/ CleanupEvict
    \/ LoopQuit
    \/ Stop

(***************************************************************************)
(* RLCapSpec: the limiter as constructed with the smallest capacities the  *)
(* constructor lets through, which does not check maxClients.              *)
(***************************************************************************)
CapInputs == {-1, 0, 1}

\* The header values of the requests made to it; "" is a request without the
\* header.
CapLevels == {"", "bogus", "INFO", "error"}

\* The limiter NewRateLimiterWithLevel returns for a maxClients of CapInputs.
RLInitCap ==
    /\ requests = <<>>
    /\ maxClients \in CapInputs
    /\ now = 0
    /\ mu = "free"
    /\ pc = [p \in Procs |-> "idle"]
    /\ loc = [p \in Procs |-> NoLoc]
    /\ requestsTotal = 0
    /\ blockedTotal = 0
    /\ activeClients = 0
    /\ loopPc = "select"
    /\ tickPending = FALSE
    /\ quit = FALSE
    /\ win = <<>>
    /\ last = NoLast
    /\ stopCalls = 0
    /\ panicked = FALSE
    /\ cfg = [maxRequests |-> MaxRequestsCfg, window |-> WindowCfg,
              maxClients |-> maxClients]
    /\ ctor = "ok"

RLCapNext ==
    \/ \E p \in SeqProcs, ip \in Keys, levelStr \in CapLevels :
            Middleware(p, ip, levelStr)
    \/ \E p \in SeqProcs : AllowEnter(p)
    \/ \E p \in SeqProcs : AllowDecide(p)
    \/ Tick
    \/ CleanupExpire
    \/ CleanupEvict

(***************************************************************************)
(* Construction of the rate limiter.                                       *)
(***************************************************************************)
\* utils.ValidateMaxRequests: TRUE when it returns an error.
ValidateMaxRequests(max) == max < 1 \/ max > 100000

\* utils.ValidateWindow: TRUE when it returns an error.
ValidateWindow(window) == window <= 0

\* The arguments the model constructs a limiter with.
CfgInputs ==
    [maxRequests : {0, 1, 2, 100000, 100001}, window : {-1, 0, 1},
     maxClients : {-1, 0, 1, 2}]

\* Before NewRateLimiterWithLevel is called: no limiter, no goroutine.
CtorInit ==
    /\ requests = <<>>
    /\ maxClients = 0
    /\ now = 0
    /\ mu = "free"
    /\ pc = [p \in Procs |-> "idle"]
    /\ loc = [p \in Procs |-> NoLoc]
    /\ requestsTotal = 0
    /\ blockedTotal = 0
    /\ activeClients = 0
    /\ loopPc = "none"
    /\ tickPending = FALSE
    /\ quit = FALSE
    /\ win = <<>>
    /\ last = NoLast
    /\ stopCalls = 0
    /\ panicked = FALSE
    /\ cfg \in CfgInputs
    /\ ctor = "none"

\* NewRateLimiterWithLevel: the two validations, the struct, go rl.cleanupLoop().
NewRateLimiterWithLevel ==
    /\ ctor = "none"
    /\ IF ValidateMaxRequests(cfg.maxRequests) \/ ValidateWindow(cfg.window)
       THEN /\ ctor' = "error"
            /\ UNCHANGED <<maxClients, loopPc>>
       ELSE /\ ctor' = "ok"
            /\ maxClients' = cfg.maxClients
            /\ loopPc' = "select"
    /\ UNCHANGED <<requests, now, mu, pc, loc, requestsTotal, blockedTotal,
                   activeClients, tickPending, quit, win, last, stopCalls,
                   panicked, cfg>>
    /\ UNCHANGED storeVars
    /\ UNCHANGED edgeVars

CtorNext == NewRateLimiterWithLevel


(***************************************************************************)
(* The SQLite log store.                                                   *)
(***************************************************************************)
MaxRowsCfg == 2     \* maxRows of a store that prunes
MaxAppends == 3     \* calls of Write in one run
MaxCloses == 2      \* calls of Close in one run
MaxRoundTrip == 2   \* calls of Write in a run that reads entries back

SProcs == {"g1", "g2"}          \* goroutines calling Write and QueryLogs
SeqSProcs == {"g1"}             \* one caller at a time
SSweeper == "cleanupLoop"       \* the store's cleanupLoop goroutine
Closer == "closer"              \* the goroutine calling Close

storeMinLevel == "INFO"

\* time.Time values the entries carry: seconds, nanoseconds, zone offset (hours).
Times == {[sec |-> s, nsec |-> 0, off |-> 0] : s \in {10, 20}}

\* A Format that writes the local date and time and marks it as UTC.
Format_DropsZone(t) == [local |-> t.sec + t.off, zone |-> 0]

\* entry.Timestamp.Format(time.RFC3339): the local date and time, then the zone.
\* The text has no fraction of a second.
Format(t) == [local |-> t.sec + t.off, zone |-> t.off]

\* time.Parse(time.RFC3339, ts); the rows hold only what Format wrote.
SafeParseTimestamp(ts) == [sec |-> ts.local - ts.zone, nsec |-> 0, off |-> ts.zone]

\* The zone suffix as text compares: "+hh:mm" < "-hh:mm" < "Z".
ZoneKey(z) == IF z = 0 THEN <<2, 0>> ELSE IF z > 0 THEN <<0, z>> ELSE <<1, -z>>

\* a < b for two stored timestamp texts, as SQLite compares TEXT.
TextLess(a, b) ==
    \/ a.local < b.local
    \/ /\ a.local = b.local
       /\ \/ ZoneKey(a.zone)[1] < ZoneKey(b.zone)[1]
          \/ /\ ZoneKey(a.zone)[1] = ZoneKey(b.zone)[1]
             /\ ZoneKey(a.zone)[2] < ZoneKey(b.zone)[2]

\* A MarshalContext that serializes every map.
MarshalContext_NeverFails(ctx) ==
    CASE ctx = "nil"   -> [text |-> "", err |-> FALSE]
      [] ctx = "empty" -> [text |-> "{}", err |-> FALSE]
      [] OTHER         -> [text |-> "json", err |-> FALSE]

\* utils.MarshalContext on a nil map, a map without keys, a map json.Marshal
\* cannot serialize, and a map of values JSON carries.
MarshalContext(ctx) ==
    CASE ctx = "nil"   -> [text |-> "", err |-> FALSE]
      [] ctx = "empty" -> [text |-> "{}", err |-> FALSE]
      [] ctx = "bad"   -> [text |-> "", err |-> TRUE]
      [] OTHER         -> [text |-> "json", err |-> FALSE]

\* utils.UnmarshalContext, and QueryLogs leaving Context nil for "" and for NULL.
UnmarshalContext(text) ==
    CASE text = ""     -> "nil"
      [] text = "{}"   -> "empty"
      [] OTHER         -> "ok"

\* The entries the model writes.
Entries ==
    {[level |-> lv, message |-> "m", timestamp |-> t, context |-> "ok"] :
        lv \in RawLevels, t \in Times}

\* The contexts an entry can carry: no map, a map without keys, a map of JSON
\* values, a map json.Marshal rejects.
Contexts == {"nil", "empty", "ok", "bad"}

\* Timestamps with a fraction of a second and with a zone offset.
RoundTripTimes == {[sec |-> 10, nsec |-> n, off |-> o] : n \in {0, 5}, o \in {0, 1}}

\* The entries written to be read back: every context at two stored levels,
\* in canonical and in lower case, every timestamp and a second message, and
\* two entries Write does not store.
RoundTripEntries ==
    {[level |-> lv, message |-> "m", timestamp |-> [sec |-> 10, nsec |-> 0, off |-> 0],
      context |-> c] : lv \in {"INFO", "ERROR", "error"}, c \in Contexts}
    \cup {[level |-> "INFO", message |-> "n", timestamp |-> t, context |-> "ok"] :
             t \in RoundTripTimes}
    \cup {[level |-> lv, message |-> "m",
           timestamp |-> [sec |-> 10, nsec |-> 0, off |-> 0], context |-> "bad"] :
             lv \in {"debug", "bogus"}}

\* The queries that read them back.
RoundTripQueries == {<<"INFO", 1, 20>>, <<"ERROR", 1, 20>>}

\* Timestamps of two instants, each in a zone west of UTC, in UTC and east of it.
ZoneTimes == {[sec |-> s, nsec |-> 0, off |-> o] : s \in {10, 11}, o \in {-1, 0, 2}}

\* The entries whose order a query is read for.
ZoneEntries ==
    {[level |-> "INFO", message |-> "m", timestamp |-> t, context |-> "nil"] :
        t \in ZoneTimes}

\* The query that returns all of them.
ZoneQueries == {<<"", 1, 20>>}

\* The entries written beside a Close that has to end: one entry, stored.
LiveEntries == {x \in Entries : x.level = "INFO" /\ x.timestamp.sec = 10}

\* The entries written beside the sweep and Close: one level is stored.
SweepEntries == {x \in Entries : x.level # "error"}

\* The entries concurrent callers write.
ConcEntries ==
    {x \in Entries : x.level \in {"INFO", "bogus"} /\ x.timestamp.sec = 10}

\* The queries the model asks: <<level, page, limit>>.
Queries ==
    {<<"", 1, 20>>, <<"INFO", 2, 1>>, <<"error", 1, 20>>, <<"bogus", 1, 20>>,
     <<"", 0, 0>>, <<"", 1, 1000>>, <<"", 0, 1001>>}

\* The queries asked beside the sweep and Close.
SweepQueries == {<<"", 1, 20>>, <<"", 0, 1001>>}

\* The queries concurrent callers ask.
ConcQueries == {<<"", 1, 20>>}

\* A ValidatePageLimit that rejects a limit of 1000 as well.
ValidatePageLimit_RejectsAt1000(page, limit) ==
    LET pg == IF page < 1 THEN 1 ELSE page
        lm == IF limit < 1 THEN 10 ELSE limit
    IN IF lm >= 1000
       THEN [page |-> 0, limit |-> 0, err |-> TRUE]
       ELSE [page |-> pg, limit |-> lm, err |-> FALSE]

\* utils.ValidatePageLimit
ValidatePageLimit(page, limit) ==
    LET pg == IF page < 1 THEN 1 ELSE page
        lm == IF limit < 1 THEN 10 ELSE limit
    IN IF lm > 1000
       THEN [page |-> 0, limit |-> 0, err |-> TRUE]
       ELSE [page |-> pg, limit |-> lm, err |-> FALSE]

RowSet(rws) == {rws[i] : i \in 1..Len(rws)}

\* ORDER BY timestamp DESC: the orders SQLite may return the rows of S in; rows
\* with equal timestamp text come in an order the query does not fix.
RECURSIVE Orders(_)
Orders(S) ==
    IF S = {}
    THEN {<<>>}
    ELSE UNION {{<<r>> \o o : o \in Orders(S \ {r})} :
                  r \in {x \in S : \A y \in S : ~TextLess(x.timestamp, y.timestamp)}}

\* The LogEntry QueryLogs builds from a row.
EntryOf(r) ==
    [level |-> r.level, message |-> r.message,
     timestamp |-> SafeParseTimestamp(r.timestamp),
     context |-> UnmarshalContext(r.context)]

\* LIMIT ? OFFSET ? on an ordered result.
Window(o, limit, offset) ==
    [i \in 1..(IF Len(o) - offset < 0 THEN 0
               ELSE IF Len(o) - offset < limit THEN Len(o) - offset ELSE limit)
        |-> o[offset + i]]

\* The order the build returns the rows of S in: one of Orders(S), the rows of
\* equal timestamp by id ascending or descending.
EngineOrder(S, tie) ==
    CHOOSE o \in Orders(S) :
        \A i, j \in 1..Len(o) :
            (i < j /\ o[i].timestamp = o[j].timestamp) =>
                IF tie = "desc" THEN o[i].id > o[j].id ELSE o[i].id < o[j].id

\* A database that returns rows of equal timestamp in an order that changes from
\* one execution of the statement to the next.
QueryOutcomes_AnyTieOrder(rws, level, page, limit) ==
    LET sel == {r \in RowSet(rws) : level = "" \/ r.level = level}
        offset == (page - 1) * limit
    IN {[i \in 1..Len(w) |-> EntryOf(w[i])] :
           w \in {Window(o, limit, offset) : o \in Orders(sel)}}

\* QueryLogs on the table rws, after its validation: the results it can return.
\* One build executes the same statement on the same table the same way.
QueryOutcomes(rws, level, page, limit) ==
    LET sel == {r \in RowSet(rws) : level = "" \/ r.level = level}
        offset == (page - 1) * limit
        w == Window(EngineOrder(sel, tieOrder), limit, offset)
    IN {[i \in 1..Len(w) |-> EntryOf(w[i])]}

\* A DELETE that keeps the n rows with the latest timestamps.
KeepAfterCleanup_ByTimestamp(rws, n) ==
    SelectSeq(rws, LAMBDA r :
        Cardinality({x \in RowSet(rws) : TextLess(r.timestamp, x.timestamp)}) < n)

\* A DELETE that keeps one row more than LIMIT says.
KeepAfterCleanup_OneMore(rws, n) ==
    SelectSeq(rws, LAMBDA r :
        Cardinality({x \in RowSet(rws) : x.id > r.id}) < n + 1)

\* utils.GenerateCleanupQuery with LIMIT n: the rows whose id is not among the n
\* highest ids are deleted.
KeepAfterCleanup(rws, n) ==
    SelectSeq(rws, LAMBDA r :
        Cardinality({x \in RowSet(rws) : x.id > r.id}) < n)

\* Write, QueryLogs, cleanup and Close without l.mu.
SCanLock_NoMutex == TRUE

\* l.mu.Lock() returns only when no goroutine holds l.mu.
SCanLock == smu = "free"

\* Close without l.wg.Wait().
WaitDone_NoWait == TRUE

\* l.wg.Wait() returns when the counter is zero.
WaitDone == wg = 0

NoSLoc == [op |-> "none", entry |-> <<>>, query |-> <<>>, page |-> 0,
           limit |-> 0, tmp |-> 0,
           err |-> "nil", result |-> <<>>]

NoHist == [lastQ |-> <<>>, lastRes |-> <<>>, repeated |-> FALSE,
           sweepErr |-> FALSE, dropped |-> 0, droppedNewer |-> FALSE,
           sinceSweep |-> 0, closeWaited |-> FALSE]

\* NewSQLiteLogger has returned a logger: the handle is open, the table and
\* the index exist.
Opened == [ret |-> "ok", db |-> "open", table |-> TRUE, index |-> TRUE]

\* NewSQLiteLogger on a new file, with maxRows 0 or MaxRowsCfg.
StoreInit ==
    /\ rows = <<>>
    /\ nextId = 1
    /\ maxRows \in {0, MaxRowsCfg}
    /\ smu = "free"
    /\ spc = [p \in SProcs |-> "idle"]
    /\ sloc = [p \in SProcs |-> NoSLoc]
    /\ totalErrors = 0
    /\ sloopPc = IF maxRows > 0 THEN "select" ELSE "none"
    /\ cancelled = FALSE
    /\ wg = IF maxRows > 0 THEN 1 ELSE 0
    /\ dbClosed = FALSE
    /\ closePc = "idle"
    /\ closeRet = <<>>
    /\ nWrites = 0
    /\ tieOrder \in {"asc", "desc"}
    /\ hist = NoHist
    /\ opening = Opened

\* A call is served by the first goroutine that is free.
SGoroutineFree(p) == spc[p] = "idle" /\ (p = "g2" => spc["g1"] # "idle")

(***************************************************************************)
(* Write: the level checks, which run before l.mu.Lock().                  *)
(***************************************************************************)
Write(p, entry) ==
    /\ SGoroutineFree(p)
    /\ nWrites < MaxAppends
    /\ nWrites' = nWrites + 1
    /\ LET entryLevel == NormalizeLogLevel(entry.level) IN
       IF ~IsValidLogLevel(entryLevel)
       THEN \* l.totalErrors++ reads the counter here and writes it in WriteCountError
            /\ spc' = [spc EXCEPT ![p] = "w_count"]
            /\ sloc' = [sloc EXCEPT ![p] =
                          [NoSLoc EXCEPT !.op = "write", !.entry = entry,
                                         !.tmp = totalErrors]]
       ELSE IF LevelLessThan(entryLevel, storeMinLevel)
            THEN \* return nil: nothing is locked, nothing is written
                 /\ spc' = [spc EXCEPT ![p] = "w_out"]
                 /\ sloc' = [sloc EXCEPT ![p] =
                               [NoSLoc EXCEPT !.op = "write", !.entry = entry,
                                              !.err = "nil"]]
            ELSE /\ spc' = [spc EXCEPT ![p] = "w_lock"]
                 /\ sloc' = [sloc EXCEPT ![p] =
                               [NoSLoc EXCEPT !.op = "write", !.entry = entry]]
    /\ UNCHANGED <<rows, nextId, maxRows, smu, totalErrors, sloopPc, cancelled,
                   wg, dbClosed, closePc, closeRet, hist>>
    /\ UNCHANGED <<tieOrder, opening>>
    /\ UNCHANGED rlVars
    /\ UNCHANGED edgeVars

\* Write: the store of l.totalErrors++; the invalid level error is the result.
WriteCountError(p) ==
    /\ spc[p] = "w_count"
    /\ totalErrors' = sloc[p].tmp + 1
    /\ spc' = [spc EXCEPT ![p] = "w_out"]
    /\ sloc' = [sloc EXCEPT ![p].err = "invalid log level"]
    /\ UNCHANGED <<rows, nextId, maxRows, smu, sloopPc, cancelled, wg, dbClosed,
                   closePc, closeRet, nWrites, hist>>
    /\ UNCHANGED <<tieOrder, opening>>
    /\ UNCHANGED rlVars
    /\ UNCHANGED edgeVars

\* Write: the return of a call that took no lock (an entry below the minimum
\* level, or a level that is not one of the allowed ones).
WriteOut(p) ==
    /\ spc[p] = "w_out"
    /\ spc' = [spc EXCEPT ![p] = "idle"]
    /\ sloc' = [sloc EXCEPT ![p] = NoSLoc]
    /\ UNCHANGED <<rows, nextId, maxRows, smu, totalErrors, sloopPc, cancelled,
                   wg, dbClosed, closePc, closeRet, nWrites, hist>>
    /\ UNCHANGED <<tieOrder, opening>>
    /\ UNCHANGED rlVars
    /\ UNCHANGED edgeVars

\* An insert that writes over the newest row.
Insert_ReplaceLast(rws, row) ==
    IF rws = <<>> THEN <<row>> ELSE [rws EXCEPT ![Len(rws)] = row]

\* INSERT INTO logs: the new row joins the table, the others stay as they are.
Insert(rws, row) == Append(rws, row)

\* Write: l.mu.Lock(), MarshalContext, Format, and l.insertStmt.Exec, which
\* fails on a closed statement and can fail on a storage fault.
WriteExec(p, fault) ==
    /\ spc[p] = "w_lock"
    /\ SCanLock
    /\ smu' = p
    /\ LET entry == sloc[p].entry
           m == MarshalContext(entry.context)
           ctxJSON == IF m.err THEN "{}" ELSE m.text
           ts == Format(entry.timestamp)
           failed == dbClosed \/ fault
       IN /\ rows' = IF failed THEN rows
                     ELSE Insert(rows, [id |-> nextId,
                                        level |-> NormalizeLogLevel(entry.level),
                                        message |-> entry.message,
                                        timestamp |-> ts,
                                        context |-> ctxJSON])
          /\ nextId' = IF failed THEN nextId ELSE nextId + 1
          /\ totalErrors' = IF failed THEN totalErrors + 1 ELSE totalErrors
          /\ sloc' = [sloc EXCEPT ![p].err = IF failed THEN "exec error" ELSE "nil"]
          /\ hist' = IF failed
                      THEN hist
                      ELSE [hist EXCEPT !.sinceSweep = @ + 1, !.lastQ = <<>>,
                                        !.lastRes = <<>>, !.repeated = FALSE]
    /\ spc' = [spc EXCEPT ![p] = "w_ret"]
    /\ UNCHANGED <<maxRows, sloopPc, cancelled, wg, dbClosed, closePc, closeRet,
                   nWrites>>
    /\ UNCHANGED <<tieOrder, opening>>
    /\ UNCHANGED rlVars
    /\ UNCHANGED edgeVars

\* Write: the deferred l.mu.Unlock() and the return.
WriteReturn(p) ==
    /\ spc[p] = "w_ret"
    /\ smu' = "free"
    /\ spc' = [spc EXCEPT ![p] = "idle"]
    /\ sloc' = [sloc EXCEPT ![p] = NoSLoc]
    /\ UNCHANGED <<rows, nextId, maxRows, totalErrors, sloopPc, cancelled,
                   wg, dbClosed, closePc, closeRet, nWrites, hist>>
    /\ UNCHANGED <<tieOrder, opening>>
    /\ UNCHANGED rlVars
    /\ UNCHANGED edgeVars

(***************************************************************************)
(* QueryLogs: l.mu.Lock(), the validation, and the SELECT.                 *)
(***************************************************************************)
QueryLogs(p, q) ==
    /\ SGoroutineFree(p)
    /\ SCanLock
    /\ smu' = p
    /\ LET level == q[1]
           v == ValidatePageLimit(q[2], q[3])
           err == IF v.err THEN "limit too large"
                  ELSE IF level # "" /\ ~IsValidLogLevel(level)
                       THEN "invalid log level"
                       ELSE IF dbClosed THEN "query error" ELSE "nil"
       IN \E result \in (IF err = "nil"
                         THEN QueryOutcomes(rows, level, v.page, v.limit)
                         ELSE {<<>>}) :
             /\ sloc' = [sloc EXCEPT ![p] =
                          [NoSLoc EXCEPT !.op = "query", !.query = q,
                                         !.page = v.page, !.limit = v.limit,
                                         !.err = err, !.result = result]]
             /\ hist' = IF err = "nil"
                         THEN [hist EXCEPT !.lastQ = q, !.lastRes = result,
                                           !.repeated = (hist.lastQ = q)]
                         ELSE hist
    /\ spc' = [spc EXCEPT ![p] = "q_ret"]
    /\ UNCHANGED <<rows, nextId, maxRows, totalErrors, sloopPc, cancelled, wg,
                   dbClosed, closePc, closeRet, nWrites>>
    /\ UNCHANGED <<tieOrder, opening>>
    /\ UNCHANGED rlVars
    /\ UNCHANGED edgeVars

\* QueryLogs: rows.Close(), the deferred l.mu.Unlock() and the return.
QueryReturn(p) ==
    /\ spc[p] = "q_ret"
    /\ smu' = "free"
    /\ spc' = [spc EXCEPT ![p] = "idle"]
    /\ sloc' = [sloc EXCEPT ![p] = NoSLoc]
    /\ UNCHANGED <<rows, nextId, maxRows, totalErrors, sloopPc, cancelled,
                   wg, dbClosed, closePc, closeRet, nWrites, hist>>
    /\ UNCHANGED <<tieOrder, opening>>
    /\ UNCHANGED rlVars
    /\ UNCHANGED edgeVars

(***************************************************************************)
(* The store's cleanupLoop and cleanup.                                    *)
(***************************************************************************)
\* case <-ticker.C: the loop calls cleanup, which waits for l.mu.
SweepTick ==
    /\ sloopPc = "select"
    /\ sloopPc' = "lock"
    /\ UNCHANGED <<rows, nextId, maxRows, smu, spc, sloc, totalErrors, cancelled,
                   wg, dbClosed, closePc, closeRet, nWrites, hist>>
    /\ UNCHANGED <<tieOrder, opening>>
    /\ UNCHANGED rlVars
    /\ UNCHANGED edgeVars

\* cleanup: l.mu.Lock() and the DELETE, which can fail.
SweepExec(fault) ==
    /\ sloopPc = "lock"
    /\ SCanLock
    /\ smu' = SSweeper
    /\ LET failed == dbClosed \/ fault
           skip == maxRows <= 0
           kept == IF skip \/ failed THEN rows ELSE KeepAfterCleanup(rows, maxRows)
       IN /\ rows' = kept
          /\ hist' = [hist EXCEPT
                        !.lastQ = IF kept = rows THEN @ ELSE <<>>,
                        !.lastRes = IF kept = rows THEN @ ELSE <<>>,
                        !.repeated = IF kept = rows THEN @ ELSE FALSE,
                        !.sweepErr = failed,
                        !.dropped = Len(rows) - Len(kept),
                        !.droppedNewer =
                            \E d \in RowSet(rows) \ RowSet(kept), k \in RowSet(kept) :
                                TextLess(k.timestamp, d.timestamp),
                        !.sinceSweep = IF skip \/ failed THEN @ ELSE 0]
    /\ sloopPc' = "sweep"
    /\ UNCHANGED <<nextId, maxRows, spc, sloc, totalErrors, cancelled, wg,
                   dbClosed, closePc, closeRet, nWrites>>
    /\ UNCHANGED <<tieOrder, opening>>
    /\ UNCHANGED rlVars
    /\ UNCHANGED edgeVars

\* A loop that returns when cleanup reports an error.
SweepReturn_ExitOnFault ==
    /\ sloopPc = "sweep"
    /\ smu' = "free"
    /\ sloopPc' = IF hist.sweepErr THEN "exited" ELSE "select"
    /\ wg' = IF hist.sweepErr THEN wg - 1 ELSE wg
    /\ UNCHANGED <<rows, nextId, maxRows, spc, sloc, totalErrors, cancelled,
                   dbClosed, closePc, closeRet, nWrites, hist>>
    /\ UNCHANGED <<tieOrder, opening>>
    /\ UNCHANGED rlVars
    /\ UNCHANGED edgeVars

\* cleanup: the deferred l.mu.Unlock(); the loop prints an error and selects again.
SweepReturn ==
    /\ sloopPc = "sweep"
    /\ smu' = "free"
    /\ sloopPc' = "select"
    /\ UNCHANGED <<rows, nextId, maxRows, spc, sloc, totalErrors, cancelled, wg,
                   dbClosed, closePc, closeRet, nWrites, hist>>
    /\ UNCHANGED <<tieOrder, opening>>
    /\ UNCHANGED rlVars
    /\ UNCHANGED edgeVars

\* case <-l.cleanupCtx.Done(): return, with the deferred l.wg.Done().
SweepExit ==
    /\ sloopPc = "select"
    /\ cancelled
    /\ sloopPc' = "exited"
    /\ wg' = wg - 1
    /\ UNCHANGED <<rows, nextId, maxRows, smu, spc, sloc, totalErrors, cancelled,
                   dbClosed, closePc, closeRet, nWrites, hist>>
    /\ UNCHANGED <<tieOrder, opening>>
    /\ UNCHANGED rlVars
    /\ UNCHANGED edgeVars

(***************************************************************************)
(* NewSQLiteLogger, step by step.                                          *)
(***************************************************************************)
\* Where NewSQLiteLogger can fail: sql.Open, one of the three PRAGMAs, CREATE
\* TABLE, CREATE INDEX, db.Prepare; or nowhere.
OpenFaults == {"none", "open", "pragma", "table", "index", "prepare"}

\* Before NewSQLiteLogger: no logger, no goroutine of it, no caller; the file
\* is new, or has the table, or the table and the index.
StoreInitOpening ==
    /\ rows = <<>>
    /\ nextId = 1
    /\ maxRows \in {0, MaxRowsCfg}
    /\ smu = "free"
    /\ spc = [p \in SProcs |-> "none"]
    /\ sloc = [p \in SProcs |-> NoSLoc]
    /\ totalErrors = 0
    /\ sloopPc = "none"
    /\ cancelled = FALSE
    /\ wg = 0
    /\ dbClosed = FALSE
    /\ closePc = "none"
    /\ closeRet = <<>>
    /\ nWrites = 0
    /\ tieOrder = "asc"
    /\ hist = NoHist
    /\ opening \in {o \in [ret : {"none"}, db : {"none"},
                            table : BOOLEAN, index : BOOLEAN] : o.index => o.table}

\* A NewSQLiteLogger that returns its error without closing the handle.
NewSQLiteLogger_LeaksHandle(fault) ==
    /\ opening.ret = "none"
    /\ IF fault = "none"
       THEN /\ opening' = Opened
            /\ spc' = [p \in SProcs |-> "idle"]
            /\ closePc' = "idle"
            /\ wg' = IF maxRows > 0 THEN 1 ELSE 0
            /\ sloopPc' = IF maxRows > 0 THEN "select" ELSE "none"
       ELSE /\ opening' = [ret |-> "error",
                           db |-> IF fault = "open" THEN "none" ELSE "open",
                           table |-> opening.table \/ fault \in {"index", "prepare"},
                           index |-> opening.index \/ fault = "prepare"]
            /\ UNCHANGED <<spc, closePc, wg, sloopPc>>
    /\ UNCHANGED <<rows, nextId, maxRows, smu, sloc, totalErrors, cancelled,
                   dbClosed, closeRet, nWrites, tieOrder, hist>>
    /\ UNCHANGED rlVars
    /\ UNCHANGED edgeVars

\* NewSQLiteLogger: sql.Open, the PRAGMAs, CREATE TABLE IF NOT EXISTS, CREATE
\* INDEX IF NOT EXISTS and db.Prepare; each failure after sql.Open closes the
\* handle and returns the error. On success the logger is returned, and with
\* maxRows > 0 wg.Add(1) and go cleanupLoop() come first.
NewSQLiteLogger(fault) ==
    /\ opening.ret = "none"
    /\ IF fault = "none"
       THEN /\ opening' = Opened
            /\ spc' = [p \in SProcs |-> "idle"]
            /\ closePc' = "idle"
            /\ wg' = IF maxRows > 0 THEN 1 ELSE 0
            /\ sloopPc' = IF maxRows > 0 THEN "select" ELSE "none"
       ELSE /\ opening' = [ret |-> "error",
                           db |-> IF fault = "open" THEN "none" ELSE "closed",
                           table |-> opening.table \/ fault \in {"index", "prepare"},
                           index |-> opening.index \/ fault = "prepare"]
            /\ UNCHANGED <<spc, closePc, wg, sloopPc>>
    /\ UNCHANGED <<rows, nextId, maxRows, smu, sloc, totalErrors, cancelled,
                   dbClosed, closeRet, nWrites, tieOrder, hist>>
    /\ UNCHANGED rlVars
    /\ UNCHANGED edgeVars

(***************************************************************************)
(* Close.                                                                  *)
(***************************************************************************)
\* l.cleanupCancel()
CloseCancel ==
    /\ closePc = "idle"
    /\ Len(closeRet) < MaxCloses
    /\ cancelled' = TRUE
    /\ closePc' = "wait"
    /\ hist' = [hist EXCEPT !.closeWaited = @ \/ sloopPc = "sweep"]
    /\ UNCHANGED <<rows, nextId, maxRows, smu, spc, sloc, totalErrors, sloopPc,
                   wg, dbClosed, closeRet, nWrites>>
    /\ UNCHANGED <<tieOrder, opening>>
    /\ UNCHANGED rlVars
    /\ UNCHANGED edgeVars

\* A Close that takes l.mu before it waits for cleanupLoop, and holds it while
\* it waits.
CloseWait_HoldingLock ==
    /\ \/ /\ closePc = "wait"
          /\ SCanLock
          /\ smu' = Closer
          /\ closePc' = "held"
       \/ /\ closePc = "held"
          /\ WaitDone
          /\ smu' = "free"
          /\ closePc' = "lock"
    /\ UNCHANGED <<rows, nextId, maxRows, spc, sloc, totalErrors, sloopPc,
                   cancelled, wg, dbClosed, closeRet, nWrites, hist>>
    /\ UNCHANGED <<tieOrder, opening>>
    /\ UNCHANGED rlVars
    /\ UNCHANGED edgeVars

\* l.wg.Wait()
CloseWait ==
    /\ closePc = "wait"
    /\ WaitDone
    /\ closePc' = "lock"
    /\ UNCHANGED <<rows, nextId, maxRows, smu, spc, sloc, totalErrors, sloopPc,
                   cancelled, wg, dbClosed, closeRet, nWrites, hist>>
    /\ UNCHANGED <<tieOrder, opening>>
    /\ UNCHANGED rlVars
    /\ UNCHANGED edgeVars

\* l.mu.Lock(), l.insertStmt.Close() and l.db.Close(): closing what is already
\* closed returns nil; closing an open handle releases it and can report an error.
CloseRelease(fault) ==
    /\ closePc = "lock"
    /\ SCanLock
    /\ smu' = Closer
    /\ dbClosed' = TRUE
    /\ closeRet' = Append(closeRet, IF ~dbClosed /\ fault THEN "close error" ELSE "nil")
    /\ closePc' = "ret"
    /\ UNCHANGED <<rows, nextId, maxRows, spc, sloc, totalErrors, sloopPc,
                   cancelled, wg, nWrites, hist>>
    /\ UNCHANGED <<tieOrder, opening>>
    /\ UNCHANGED rlVars
    /\ UNCHANGED edgeVars

\* Close: the deferred l.mu.Unlock() and the return.
CloseReturn ==
    /\ closePc = "ret"
    /\ smu' = "free"
    /\ closePc' = "idle"
    /\ UNCHANGED <<rows, nextId, maxRows, spc, sloc, totalErrors, sloopPc,
                   cancelled, wg, dbClosed, closeRet, nWrites, hist>>
    /\ UNCHANGED <<tieOrder, opening>>
    /\ UNCHANGED rlVars
    /\ UNCHANGED edgeVars

StoreNext ==
    \/ \E p \in SeqSProcs, entry \in SweepEntries : Write(p, entry)
    \/ \E p \in SeqSProcs : WriteCountError(p)
    \/ \E p \in SeqSProcs : WriteOut(p)
    \/ \E p \in SeqSProcs, fault \in BOOLEAN : WriteExec(p, fault)
    \/ \E p \in SeqSProcs : WriteReturn(p)
    \/ \E p \in SeqSProcs, q \in SweepQueries : QueryLogs(p, q)
    \/ \E p \in SeqSProcs : QueryReturn(p)
    \/ SweepTick
    \/ \E fault \in BOOLEAN : SweepExec(fault)
    \/ SweepReturn
    \/ SweepExit
    \/ CloseCancel
    \/ CloseWait
    \/ \E fault \in BOOLEAN : CloseRelease(fault)
    \/ CloseReturn

\* The store without a row bound, written and queried by one caller at a time.
StoreQueryNext ==
    \/ \E p \in SeqSProcs, entry \in Entries : Write(p, entry)
    \/ \E p \in SeqSProcs : WriteCountError(p)
    \/ \E p \in SeqSProcs : WriteOut(p)
    \/ \E p \in SeqSProcs, fault \in BOOLEAN : WriteExec(p, fault)
    \/ \E p \in SeqSProcs : WriteReturn(p)
    \/ \E p \in SeqSProcs, q \in Queries : QueryLogs(p, q)
    \/ \E p \in SeqSProcs : QueryReturn(p)

\* The same store with two concurrent callers.
StoreConcNext ==
    \/ \E p \in SProcs, entry \in ConcEntries : Write(p, entry)
    \/ \E p \in SProcs : WriteCountError(p)
    \/ \E p \in SProcs : WriteOut(p)
    \/ \E p \in SProcs, fault \in BOOLEAN : WriteExec(p, fault)
    \/ \E p \in SProcs : WriteReturn(p)
    \/ \E p \in SProcs, q \in ConcQueries : QueryLogs(p, q)
    \/ \E p \in SProcs : QueryReturn(p)
    \/ SweepTick
    \/ \E fault \in BOOLEAN : SweepExec(fault)
    \/ SweepReturn
    \/ SweepExit
    \/ CloseCancel
    \/ CloseWait
    \/ \E fault \in BOOLEAN : CloseRelease(fault)
    \/ CloseReturn

\* The store without a row bound and without storage faults: a caller appends
\* MaxRoundTrip entries and reads them back.
ZoneNext ==
    \/ \E p \in SeqSProcs, entry \in ZoneEntries :
          nWrites < MaxRoundTrip /\ Write(p, entry)
    \/ \E p \in SeqSProcs : WriteExec(p, FALSE)
    \/ \E p \in SeqSProcs : WriteReturn(p)
    \/ \E p \in SeqSProcs, q \in ZoneQueries : QueryLogs(p, q)
    \/ \E p \in SeqSProcs : QueryReturn(p)

LiveNext ==
    \/ \E p \in SProcs, entry \in LiveEntries : Write(p, entry)
    \/ \E p \in SProcs, fault \in BOOLEAN : WriteExec(p, fault)
    \/ \E p \in SProcs : WriteReturn(p)
    \/ \E p \in SProcs, q \in ConcQueries : QueryLogs(p, q)
    \/ \E p \in SProcs : QueryReturn(p)
    \/ SweepTick
    \/ \E fault \in BOOLEAN : SweepExec(fault)
    \/ SweepReturn
    \/ SweepExit
    \/ CloseCancel
    \/ CloseWait
    \/ \E fault \in BOOLEAN : CloseRelease(fault)
    \/ CloseReturn

LifeNext ==
    \/ \E fault \in OpenFaults : NewSQLiteLogger(fault)
    \/ \E p \in SeqSProcs, entry \in LiveEntries : Write(p, entry)
    \/ \E p \in SeqSProcs, fault \in BOOLEAN : WriteExec(p, fault)
    \/ \E p \in SeqSProcs : WriteReturn(p)
    \/ \E p \in SeqSProcs, q \in ConcQueries : QueryLogs(p, q)
    \/ \E p \in SeqSProcs : QueryReturn(p)
    \/ SweepTick
    \/ \E fault \in BOOLEAN : SweepExec(fault)
    \/ SweepReturn
    \/ SweepExit
    \/ CloseCancel
    \/ CloseWait
    \/ \E fault \in BOOLEAN : CloseRelease(fault)
    \/ CloseReturn

RoundTripNext ==
    \/ \E p \in SeqSProcs, entry \in RoundTripEntries :
          nWrites < MaxRoundTrip /\ Write(p, entry)
    \/ \E p \in SeqSProcs : WriteCountError(p)
    \/ \E p \in SeqSProcs : WriteOut(p)
    \/ \E p \in SeqSProcs : WriteExec(p, FALSE)
    \/ \E p \in SeqSProcs : WriteReturn(p)
    \/ \E p \in SeqSProcs, q \in RoundTripQueries : QueryLogs(p, q)
    \/ \E p \in SeqSProcs : QueryReturn(p)

(***************************************************************************)
(* LogEntry.Validate.                                                      *)
(***************************************************************************)
MaxMessageLength == 1024
MaxContextSizeBytes == 2048
MaxContextKeys == 10

\* e.Message: its length in bytes, and its length after strings.TrimSpace.
Messages ==
    {[len |-> 0, trimmed |-> 0],
     [len |-> 3, trimmed |-> 0],
     [len |-> 1, trimmed |-> 1],
     [len |-> MaxMessageLength, trimmed |-> MaxMessageLength],
     [len |-> MaxMessageLength + 1, trimmed |-> MaxMessageLength],
     [len |-> MaxMessageLength + 1, trimmed |-> MaxMessageLength + 1]}

\* e.Context: nil or a map; its number of keys; whether json.Marshal accepts
\* it and how many bytes it then writes.
CtxValues ==
    {[nil |-> TRUE, keys |-> 0, marshals |-> TRUE, bytes |-> 0],
     [nil |-> FALSE, keys |-> 0, marshals |-> TRUE, bytes |-> 2],
     [nil |-> FALSE, keys |-> MaxContextKeys, marshals |-> TRUE,
      bytes |-> MaxContextSizeBytes],
     [nil |-> FALSE, keys |-> MaxContextKeys + 1, marshals |-> TRUE, bytes |-> 100],
     [nil |-> FALSE, keys |-> 1, marshals |-> TRUE, bytes |-> MaxContextSizeBytes + 1],
     [nil |-> FALSE, keys |-> 1, marshals |-> FALSE, bytes |-> 0]}

\* e.Level as received.
ValidateLevels == {"", "info", "INFO", "error", "bogus"}

LogEntries == [level : ValidateLevels, message : Messages, context : CtxValues]

\* len(e.Message) > MaxMessageLength
MessageTooLong(msg) == msg.len > MaxMessageLength

\* The error Validate returns for e, "nil" for none, in the order of its checks.
ValidateResult(e) ==
    IF e.message.trimmed = 0 THEN "message is required"
    ELSE IF MessageTooLong(e.message) THEN "message too long"
    ELSE IF ~e.context.nil /\ e.context.keys > MaxContextKeys
         THEN "context too large"
    ELSE IF ~e.context.nil /\ ~e.context.marshals THEN "invalid context JSON"
    ELSE IF ~e.context.nil /\ e.context.bytes > MaxContextSizeBytes
         THEN "context too large: exceeds 2048 bytes"
    ELSE IF e.level = "" THEN "level is required"
    ELSE IF ~IsValidLogLevel(NormalizeLogLevel(e.level)) THEN "invalid log level"
    ELSE "nil"

NoValidated == [err |-> "none", level |-> ""]

\* e.Validate(): the result, and e.Level, which it rewrites when it accepts.
Validate ==
    /\ validated = NoValidated
    /\ validated' = [err |-> ValidateResult(logEntry),
                     level |-> IF ValidateResult(logEntry) = "nil"
                               THEN NormalizeLogLevel(logEntry.level)
                               ELSE logEntry.level]
    /\ UNCHANGED <<logEntry, authReq, authResp>>
    /\ UNCHANGED rlVars
    /\ UNCHANGED storeVars

ValidateNext == Validate

(***************************************************************************)
(* ApiKeyMiddlewareWithLevel.                                              *)
(***************************************************************************)
\* The bytes of the strings the middleware compares.
Bytes(s) ==
    CASE s = ""              -> <<>>
      [] s = "DEBUG"         -> <<68, 69, 66, 85, 71>>
      [] s = "ERROR"         -> <<69, 82, 82, 79, 82>>
      [] s = "FATAL"         -> <<70, 65, 84, 65, 76>>
      [] s = "INFO"          -> <<73, 78, 70, 79>>
      [] s = "TRACE"         -> <<84, 82, 65, 67, 69>>
      [] s = "WARN"          -> <<87, 65, 82, 78>>
      [] s = "UNKNOWN_LEVEL" -> <<85, 78, 75, 78, 79, 87, 78, 95, 76, 69, 86, 69, 76>>

\* a < b for two Go strings: byte by byte, a proper prefix first.
RECURSIVE LexLess(_, _)
LexLess(a, b) ==
    IF b = <<>> THEN FALSE
    ELSE IF a = <<>> THEN TRUE
    ELSE IF Head(a) # Head(b) THEN Head(a) < Head(b)
    ELSE LexLess(Tail(a), Tail(b))

\* level < minLevel on two values of a string type.
StringLess(a, b) == LexLess(Bytes(a), Bytes(b))

\* The X-Log-Level headers and X-API-Key headers (trimmed) of the requests.
AuthLevels ==
    {"", "debug", "INFO", "warn", "WARN", "error", "ERROR", "FATAL", "TRACE",
     "UNKNOWN_LEVEL"}

ApiKeys == {"", "secret", "badkey"}

\* A request, with the key and the minimum level the middleware was built with.
AuthRequests ==
    [level : AuthLevels, key : ApiKeys, validKey : {"secret"},
     minLevel : {"INFO", "WARN", "ERROR"}]

verifyAPIKey(key, validKey) == key # "" /\ key = validKey

NoAuthResp == [status |-> 0, next |-> FALSE, audit |-> "", requested_level |-> ""]

\* The handler ApiKeyMiddlewareWithLevel returns, serving authReq. A request
\* that reaches next is answered by it, here with 200.
ApiKeyMiddlewareWithLevel ==
    /\ authResp = NoAuthResp
    /\ LET level == NormalizeLogLevel(authReq.level) IN
       authResp' =
         IF StringLess(level, authReq.minLevel)
         THEN [status |-> 200, next |-> TRUE, audit |-> "", requested_level |-> ""]
         ELSE IF ~verifyAPIKey(authReq.key, authReq.validKey)
              THEN [status |-> 401, next |-> FALSE, audit |-> "api_key_check",
                    requested_level |-> level]
              ELSE [status |-> 200, next |-> TRUE, audit |-> "",
                    requested_level |-> ""]
    /\ UNCHANGED <<logEntry, validated, authReq>>
    /\ UNCHANGED rlVars
    /\ UNCHANGED storeVars

AuthNext == ApiKeyMiddlewareWithLevel

\* No entry under validation, no request being served.
EdgeIdle ==
    /\ logEntry = [level |-> "", message |-> [len |-> 0, trimmed |-> 0],
                   context |-> [nil |-> TRUE, keys |-> 0, marshals |-> TRUE,
                                bytes |-> 0]]
    /\ validated = NoValidated
    /\ authReq = [level |-> "", key |-> "", validKey |-> "secret", minLevel |-> "WARN"]
    /\ authResp = NoAuthResp

(***************************************************************************)
(* The specifications. Each runs one component and leaves the other as it  *)
(* was constructed.                                                        *)
(***************************************************************************)
vars == <<rlVars, storeVars, edgeVars>>

\* Both components as constructed.
Init == RLInit /\ StoreInit /\ EdgeIdle

\* Both components as constructed, the store without a row bound.
InitUnbounded == Init /\ maxRows = 0 /\ tieOrder = "asc"

StoreSpec == Init /\ [][StoreNext]_vars

StoreConcSpec == Init /\ [][StoreConcNext]_vars

\* Both components as constructed, the store without a row bound, for either
\* order of equal timestamps.
InitQuery == Init /\ maxRows = 0

StoreQuerySpec == InitQuery /\ [][StoreQueryNext]_vars

RLSpec == InitUnbounded /\ [][RLNext]_vars

RLConcSpec == InitUnbounded /\ [][RLConcNext]_vars

RLStopSpec == InitUnbounded /\ [][RLStopNext]_vars

\* The store as constructed without a row bound, the limiter not yet constructed.
InitCtor == CtorInit /\ StoreInit /\ EdgeIdle /\ maxRows = 0 /\ tieOrder = "asc"

CtorSpec == InitCtor /\ [][CtorNext]_vars

\* The store under fair scheduling: a goroutine that can run does run, the
\* ticker keeps firing, l.mu is handed to each goroutine that waits for it, and
\* a select with the Done case ready takes it in the end.
StoreLiveSpec ==
    /\ Init /\ [][LiveNext]_vars
    /\ \A p \in SProcs : WF_vars(WriteReturn(p)) /\ WF_vars(QueryReturn(p))
    /\ \A p \in SProcs : SF_vars(\E fault \in BOOLEAN : WriteExec(p, fault))
    /\ WF_vars(SweepTick)
    /\ SF_vars(\E fault \in BOOLEAN : SweepExec(fault))
    /\ WF_vars(SweepReturn)
    /\ SF_vars(SweepExit)
    /\ SF_vars(CloseWait)
    /\ SF_vars(\E fault \in BOOLEAN : CloseRelease(fault))
    /\ WF_vars(CloseReturn)

\* The store from before NewSQLiteLogger is called.
InitOpening == RLInit /\ StoreInitOpening /\ EdgeIdle

StoreLifeSpec == InitOpening /\ [][LifeNext]_vars

ZoneSpec == InitQuery /\ [][ZoneNext]_vars

RoundTripSpec == InitQuery /\ [][RoundTripNext]_vars

\* Both components as constructed without a row bound, an entry to validate.
InitValidate ==
    /\ RLInit /\ StoreInit /\ maxRows = 0 /\ tieOrder = "asc"
    /\ logEntry \in LogEntries
    /\ validated = NoValidated
    /\ authReq = [level |-> "", key |-> "", validKey |-> "secret", minLevel |-> "WARN"]
    /\ authResp = NoAuthResp

ValidateSpec == InitValidate /\ [][ValidateNext]_vars

\* Both components as constructed without a row bound, a request to serve.
InitAuth ==
    /\ RLInit /\ StoreInit /\ maxRows = 0 /\ tieOrder = "asc"
    /\ logEntry = [level |-> "", message |-> [len |-> 0, trimmed |-> 0],
                   context |-> [nil |-> TRUE, keys |-> 0, marshals |-> TRUE,
                                bytes |-> 0]]
    /\ validated = NoValidated
    /\ authReq \in AuthRequests
    /\ authResp = NoAuthResp

AuthSpec == InitAuth /\ [][AuthNext]_vars

\* The limiter with a small or negative capacity, the store without a row bound.
InitCap == RLInitCap /\ StoreInit /\ EdgeIdle /\ maxRows = 0 /\ tieOrder = "asc"

RLCapSpec == InitCap /\ [][RLCapNext]_vars

\* The same, with the cleanup goroutine and the request goroutines scheduled:
\* a goroutine that can run does run, and sync.Mutex hands the lock to a
\* waiter that keeps finding it free.
RLCapLiveSpec ==
    /\ InitCap /\ [][RLCapNext]_vars
    /\ WF_vars(CleanupEvict)
    /\ \A p \in SeqProcs : SF_vars(AllowEnter(p)) /\ WF_vars(AllowDecide(p))

(***************************************************************************)
(* Properties of the rate limiter.                                         *)
(***************************************************************************)
Min(a, b) == IF a <= b THEN a ELSE b

\* C1: of the calls decided on one window of a client, all with the same quota
\* q >= 1, the i-th is allowed exactly when i <= q; so of q+1 calls the first q
\* are allowed and the (q+1)th, and only it, is denied.
C1_QuotaThenDeny ==
    (last.kind = "allow" /\ last.sameQuota /\ last.callNo >= 1)
        => (last.allowed <=> last.callNo <= last.maxReq)

C1_Witness ==
    /\ last.kind = "allow"
    /\ last.sameQuota
    /\ last.maxReq = MaxRequestsCfg
    /\ last.callNo = MaxRequestsCfg + 1
    /\ ~last.allowed

\* C2: the table never tracks more than maxClients clients.
C2_TableWithinCapacity == Size(requests) <= maxClients

\* C3: an allow for an untracked ip that finds the table holding exactly maxClients
\* clients evicts exactly one client, one with the oldest firstSeen, and then
\* creates the ip's window with count 1 and allows the call.
C3_EvictsOneAtCapacity ==
    (last.kind = "allow" /\ ~last.trackedAtEntry /\ last.sizeAtEntry = maxClients)
        => /\ Cardinality(last.evicted) = 1
           /\ last.wasOldest
           /\ last.newCount = 1
           /\ last.allowed

\* C4: an allow that finds the ip tracked with a window older than the window
\* duration is allowed whatever the count was and resets the window to count 1
\* and firstSeen = now; a count is incremented only at an age <= the duration.
C4_ExpiredWindowReset ==
    (last.kind = "allow" /\ last.existed)
        => /\ last.at - last.prevFirstSeen > WindowCfg
                => /\ last.allowed
                   /\ last.newCount = 1
                   /\ last.newFirstSeen = last.at
           /\ last.newCount = last.prevCount + 1
                => last.at - last.prevFirstSeen <= WindowCfg

C4_Witness ==
    /\ last.kind = "allow"
    /\ last.existed
    /\ last.at - last.prevFirstSeen > WindowCfg
    /\ last.prevCount >= last.maxReq
    /\ last.allowed
    /\ last.newCount = 1

\* C8: at most one goroutine is inside the critical section of allow or cleanup,
\* and for the N calls decided on one window with quota q, in flight together or
\* not, exactly min(N, q) were allowed and the count is min(N, q).
C8_DecisionsSerialized ==
    /\ Cardinality({p \in Procs : pc[p] = "decide"})
          + (IF loopPc = "evict" THEN 1 ELSE 0) <= 1
    /\ \A k \in DOMAIN win :
          win[k].same =>
            /\ k \in DOMAIN requests
            /\ win[k].allowed = Min(win[k].calls, win[k].q)
            /\ requests[k].count = Min(win[k].calls, win[k].q)

C8_Witness ==
    \E k \in DOMAIN win :
        /\ win[k].racing
        /\ win[k].same
        /\ win[k].calls = 2
        /\ win[k].q = ErrorLimitCfg
        /\ requests[k].count = 1
        /\ \A p \in Procs : pc[p] = "idle"

\* C10: a request whose level is below minLevel never enters allow; it is
\* answered allowed, and the table, the metrics and the lock are left as they were.
C10_BelowMinLevelUntouched ==
    [][ /\ \A p \in Procs :
             (pc[p] = "idle" /\ pc'[p] = "lock")
                => ~(/\ loc'[p].level \in allowedLogLevels
                     /\ orderMap[loc'[p].level] < orderMap[minLevel])
        /\ (last'.kind = "pass" /\ last' # last)
             => /\ last'.allowed
                /\ UNCHANGED <<requests, requestsTotal, blockedTotal,
                               activeClients, mu, pc, loc>> ]_rlVars

C10_Witness ==
    /\ last.kind = "pass"
    /\ last.level = "DEBUG"
    /\ last.existed
    /\ last.prevCount >= MaxRequestsCfg
    /\ last.allowed

\* C11: the quota of a call is perLevelLimits[level] when the level has an
\* override and maxRequests otherwise; on a found, unexpired window a count below
\* the quota is incremented and the call allowed, a count at or above it is
\* left as it is and the call denied.
C11_EffectiveQuotaDecides ==
    last.kind = "allow" =>
        /\ last.maxReq = (IF last.level = "ERROR" THEN ErrorLimitCfg ELSE MaxRequestsCfg)
        /\ (last.existed /\ last.at - last.prevFirstSeen <= WindowCfg) =>
              /\ last.newFirstSeen = last.prevFirstSeen
              /\ last.prevCount < last.maxReq =>
                    (last.allowed /\ last.newCount = last.prevCount + 1)
              /\ last.prevCount >= last.maxReq =>
                    (~last.allowed /\ last.newCount = last.prevCount)

\* An ERROR request is denied at count 1 by the override, where the baseline
\* quota would have allowed it.
C11_Witness ==
    /\ last.kind = "allow"
    /\ last.level = "ERROR"
    /\ last.existed
    /\ last.prevCount = ErrorLimitCfg
    /\ last.prevCount < MaxRequestsCfg
    /\ ~last.allowed

\* C12: an allowed call returns retryAfter 0; a denial returns
\* window - (now - firstSeen), and that is neither negative nor above window.
C12_RetryAfterWithinWindow ==
    last.kind = "allow" =>
        IF last.allowed
        THEN last.retryAfter = 0
        ELSE /\ last.retryAfter = WindowCfg - (last.at - last.prevFirstSeen)
             /\ last.retryAfter >= 0
             /\ last.retryAfter <= WindowCfg

\* C13: cleanup deletes exactly the windows older than window at the time it
\* reads, leaves the others as they are, then evicts only while the table is
\* over maxClients and only a window with the least firstSeen, returns with the
\* table within maxClients, and no allow is inside its critical section
\* meanwhile.
C13_SweepExpiresThenEvictsOldest ==
    [][/\ (loopPc = "select" /\ loopPc' = "evict") =>
            /\ \A k \in DOMAIN requests' : now - requests'[k].firstSeen <= WindowCfg
            /\ \A k \in DOMAIN requests :
                  now - requests[k].firstSeen <= WindowCfg =>
                      (k \in DOMAIN requests' /\ requests'[k] = requests[k])
            /\ DOMAIN requests' \subseteq DOMAIN requests
       /\ (loopPc = "evict" /\ requests' # requests) =>
            /\ loopPc' = "evict"
            /\ Size(requests) > maxClients
            /\ \E k \in DOMAIN requests :
                  /\ \A j \in DOMAIN requests :
                        requests[k].firstSeen <= requests[j].firstSeen
                  /\ requests' = Restrict(requests, DOMAIN requests \ {k})
       /\ (loopPc = "evict" /\ loopPc' = "select") =>
            /\ Size(requests') <= maxClients
            /\ activeClients' = Size(requests')
       /\ loopPc = "evict" =>
            /\ mu = Sweeper
            /\ \A p \in Procs : pc[p] # "decide" /\ pc'[p] # "decide"]_vars

\* A sweep is inside cleanup after removing windows, an unexpired window is still
\* tracked, and a request waits in allow for the lock.
C13_Witness ==
    /\ loopPc = "evict"
    /\ Size(requests) < activeClients
    /\ Size(requests) >= 1
    /\ \E p \in Procs : pc[p] = "lock"

\* C14: Stop closes rl.quit, after which no sweep starts unless a tick was
\* already waiting; a second call of Stop changes nothing and does not panic.
C14_StopIdempotent ==
    [][/\ ~panicked'
       /\ stopCalls' >= 1 => quit'
       /\ (stopCalls >= 1 /\ stopCalls' = stopCalls + 1) =>
            UNCHANGED <<requests, maxClients, now, mu, pc, loc, requestsTotal,
                        blockedTotal, activeClients, loopPc, tickPending, quit,
                        win, last, panicked, cfg, ctor>>
       /\ (quit /\ ~tickPending /\ loopPc = "select") => loopPc' # "evict"
       /\ loopPc = "exited" => loopPc' = "exited"]_vars

\* Stop has been called twice and cleanupLoop has returned.
C14_Witness ==
    /\ stopCalls = 2
    /\ quit
    /\ ~panicked
    /\ loopPc = "exited"

\* C15: once Stop has returned, no sweep iteration is running and none starts.
C15_NoSweepAfterStop == stopCalls >= 1 => loopPc # "evict"

\* C16: NewRateLimiterWithLevel returns an error, and starts no cleanupLoop,
\* exactly when maxRequests is outside 1..100000, window <= 0 or maxClients <= 0.
C16_ConstructionValidates ==
    ctor # "none" =>
        /\ ctor = "error" <=>
              \/ cfg.maxRequests < 1
              \/ cfg.maxRequests > 100000
              \/ cfg.window <= 0
              \/ cfg.maxClients <= 0
        /\ ctor = "error" => loopPc = "none"

(***************************************************************************)
(* Properties of the log store.                                            *)
(***************************************************************************)
\* The last k rows of the table rws, in insertion order.
LastInserted(rws, k) == SubSeq(rws, Len(rws) - k + 1, Len(rws))

\* C5: with maxRows = M > 0, a retention sweep whose DELETE succeeds leaves
\* exactly the min(M, n) most recently inserted of the n rows it found, whatever
\* their timestamps, and a query for page 1 with limit 20 then returns exactly
\* those rows.
C5_SweepKeepsLastInserted ==
    [][(sloopPc = "lock" /\ sloopPc' = "sweep" /\ maxRows > 0 /\ ~hist'.sweepErr)
        => LET k == Min(maxRows, Len(rows))
               newest == LastInserted(rows, k)
           IN /\ rows' = newest
              /\ \A res \in QueryOutcomes(rows', "", 1, 20) :
                    /\ Len(res) = k
                    /\ Len(res) <= maxRows
                    /\ {res[i] : i \in 1..Len(res)} =
                          {EntryOf(newest[i]) : i \in 1..k}]_vars

\* A sweep has deleted a row whose timestamp is later than that of a row it kept.
C5_Witness ==
    /\ sloopPc = "sweep"
    /\ maxRows > 0
    /\ ~hist.sweepErr
    /\ hist.dropped >= 1
    /\ hist.droppedNewer
    /\ Len(rows) = maxRows

\* C6 as stated: with maxRows > 0 the table never holds more than maxRows rows.
C6_RowCountNeverExceedsMax == maxRows > 0 => Len(rows) <= maxRows

\* C6 amended: with maxRows > 0 the table holds at most maxRows rows when a sweep's
\* DELETE has succeeded, and exceeds maxRows by at most the number of rows
\* inserted since then (since construction, before the first such sweep).
C6_RowCountBoundedSinceSweep ==
    maxRows > 0 =>
        /\ Len(rows) <= maxRows + hist.sinceSweep
        /\ (sloopPc = "sweep" /\ ~hist.sweepErr => Len(rows) <= maxRows)

\* After a sweep's DELETE succeeded on a full table, one more row was inserted
\* and the table is over maxRows.
C6_Witness ==
    /\ maxRows > 0
    /\ hist.sinceSweep = 1
    /\ Len(rows) = maxRows + 1

\* C7: Close cancels the sweep and waits for cleanupLoop to return before it
\* closes the handles: no sweep iteration runs on closed handles, cleanupLoop is
\* gone when Close takes the lock and stays gone after Close returned, and a
\* second Close returns nil and leaves the handles closed.
C7_CloseWaitsForSweep ==
    /\ sloopPc = "sweep" => ~dbClosed
    /\ (closePc \in {"lock", "ret"} \/ Len(closeRet) >= 1 \/ dbClosed)
          => (cancelled /\ sloopPc \in {"none", "exited"})
    /\ Len(closeRet) >= 1 => dbClosed
    /\ Len(closeRet) >= 2 => closeRet[2] = "nil"

\* Close was called while a sweep iteration held the lock, and has since been
\* called a second time.
C7_Witness ==
    /\ maxRows > 0
    /\ hist.closeWaited
    /\ Len(closeRet) = 2
    /\ sloopPc = "exited"

\* The goroutines inside a critical section of l.mu.
InCritical ==
    {p \in SProcs : spc[p] \in {"w_ret", "q_ret"}}
        \cup (IF sloopPc = "sweep" THEN {SSweeper} ELSE {})
        \cup (IF closePc = "ret" THEN {Closer} ELSE {})

\* C9: Write, QueryLogs and the sweep exclude each other: at most one goroutine
\* is inside a critical section, it is the holder of l.mu, and until QueryLogs
\* returns its result is a result of its query on the table as it stands.
C9_StoreOperationsExclusive ==
    /\ Cardinality(InCritical) <= 1
    /\ \A p \in InCritical : smu = p
    /\ \A p \in SProcs :
          (spc[p] = "q_ret" /\ sloc[p].err = "nil") =>
              LET q == sloc[p].query
                  v == ValidatePageLimit(q[2], q[3])
              IN sloc[p].result \in QueryOutcomes(rows, q[1], v.page, v.limit)

\* A query holds rows it read while a Write waits for the lock, with the sweep
\* loop running.
C9_Witness ==
    /\ spc["g1"] = "q_ret"
    /\ Len(sloc["g1"].result) >= 2
    /\ spc["g2"] = "w_lock"
    /\ sloopPc = "select"
    /\ maxRows > 0

(***************************************************************************)
(* Properties of QueryLogs.                                                *)
(***************************************************************************)
\* The rows of S by recency: timestamp descending, then id descending.
RecencyOrder(S) ==
    CHOOSE o \in [1..Cardinality(S) -> S] :
        \A i, j \in 1..Cardinality(S) :
            i < j =>
                \/ TextLess(o[j].timestamp, o[i].timestamp)
                \/ (o[i].timestamp = o[j].timestamp /\ o[i].id > o[j].id)

\* How many of n rows a window of limit rows from offset holds.
WindowLen(n, limit, offset) ==
    IF n - offset < 0 THEN 0 ELSE Min(limit, n - offset)

\* The goroutines whose QueryLogs has a result and has not returned yet.
Answered == {p \in SProcs : spc[p] = "q_ret" /\ sloc[p].err = "nil"}

\* C17: a query's result is the window, from offset (page-1)*limit and of at most
\* limit rows, of the selected rows ordered by timestamp descending and, for
\* equal timestamps, by insertion order descending.
C17_ResultOrderedByRecency ==
    \A p \in Answered :
        LET l == sloc[p]
            sel == {r \in RowSet(rows) : l.query[1] = "" \/ r.level = l.query[1]}
            o == RecencyOrder(sel)
            offset == (l.page - 1) * l.limit
            k == WindowLen(Cardinality(sel), l.limit, offset)
        IN l.result = [i \in 1..k |-> EntryOf(o[offset + i])]

\* C18: a non-empty filter that does not normalize to a recognized level is
\* rejected; an accepted filter, in whatever letter case, returns the window of
\* the rows stored with that level.
C18_FilterCaseInsensitive ==
    \A p \in SProcs :
        spc[p] = "q_ret" =>
            LET l == sloc[p]
                f == l.query[1]
                norm == ToUpper(f)
                n == Cardinality({r \in RowSet(rows) : r.level = norm})
            IN /\ (f # "" /\ norm \notin allowedLogLevels /\ l.query[3] <= 1000)
                    => l.err = "invalid log level"
               /\ (f # "" /\ norm \in allowedLogLevels /\ l.err = "nil") =>
                    /\ Len(l.result) = WindowLen(n, l.limit, (l.page - 1) * l.limit)
                    /\ \A i \in 1..Len(l.result) : l.result[i].level = norm

Accepted(e) == e.level \in allowedLogLevels /\ ~MarshalContext(e.context).err

\* The record rec carries what the entry e carried, to the second.
MatchesEntry(rec, e) ==
    /\ rec.level = e.level
    /\ rec.message = e.message
    /\ rec.timestamp.sec = e.timestamp.sec
    /\ rec.context = e.context

\* C21: once Write has appended an accepted entry e at or above the store's
\* minimum level, QueryLogs filtered on e.level returns a record whose level,
\* message and timestamp to the second are those of e and whose context has the
\* same keys and values.
C21_RoundTrip ==
    \A p \in SProcs :
        (spc[p] = "w_ret" /\ sloc[p].err = "nil" /\ Accepted(sloc[p].entry)) =>
            \A res \in QueryOutcomes(rows, sloc[p].entry.level, 1, 20) :
                \E i \in 1..Len(res) : MatchesEntry(res[i], sloc[p].entry)

\* An accepted entry with a fraction of a second, a zone offset and a context
\* has been appended after another entry.
C21_Witness ==
    \E p \in SProcs :
        /\ spc[p] = "w_ret" /\ sloc[p].err = "nil" /\ Accepted(sloc[p].entry)
        /\ sloc[p].entry.timestamp.nsec = 5 /\ sloc[p].entry.timestamp.off = 1
        /\ sloc[p].entry.context = "ok"
        /\ Len(rows) = 2

(***************************************************************************)
(* Entries below the store's minimum level.                                *)
(***************************************************************************)
\* The entry's level is an allowed one that orders below the store's minimum.
BelowMinimum(e) ==
    /\ ToUpper(e.level) \in allowedLogLevels
    /\ orderMap[ToUpper(e.level)] < orderMap[storeMinLevel]

Unrecognized(level) == ToUpper(level) \notin allowedLogLevels

\* C25: a Write with an unrecognized level, and a QueryLogs with limit > 1000 or
\* an unrecognized level filter, return an error, and from the call to the
\* return the rows and the next row id stay exactly as they were.
C25_RejectedInputLeavesRows ==
    [][\A p \in SProcs :
         /\ (spc[p] = "idle" /\ spc'[p] # "idle" /\ sloc'[p].op = "write"
               /\ Unrecognized(sloc'[p].entry.level))
            => (spc'[p] = "w_count" /\ rows' = rows /\ nextId' = nextId)
         /\ (spc[p] = "w_count" /\ spc'[p] # "w_count")
            => (spc'[p] = "w_out" /\ sloc'[p].err = "invalid log level"
                  /\ rows' = rows /\ nextId' = nextId)
         /\ (spc[p] = "w_out" /\ spc'[p] # "w_out" /\ sloc[p].err # "nil")
            => (spc'[p] = "idle" /\ rows' = rows /\ nextId' = nextId)
         /\ (spc[p] = "idle" /\ spc'[p] # "idle" /\ sloc'[p].op = "query"
               /\ \/ sloc'[p].query[3] > 1000
                  \/ /\ sloc'[p].query[1] # ""
                     /\ Unrecognized(sloc'[p].query[1]))
            => (sloc'[p].err \in {"limit too large", "invalid log level"}
                  /\ sloc'[p].result = <<>>
                  /\ rows' = rows /\ nextId' = nextId)
         /\ (spc[p] = "q_ret" /\ spc'[p] # "q_ret" /\ sloc[p].err # "nil")
            => (spc'[p] = "idle" /\ rows' = rows /\ nextId' = nextId)]_vars

\* A Write is returning the invalid level error beside two stored rows.
C25_Witness ==
    \E p \in SProcs :
        /\ spc[p] = "w_out" /\ sloc[p].err = "invalid log level"
        /\ Unrecognized(sloc[p].entry.level)
        /\ Len(rows) = 2

(***************************************************************************)
(* Storage faults.                                                         *)
(***************************************************************************)
\* C26: a Write whose Exec fails returns that error and counts it in
\* totalErrors, and neither it nor its return touches the rows or the sweep
\* goroutine; a cleanup that fails leaves the rows as they were; after every
\* iteration, failed or not, cleanupLoop selects again, and it returns only from
\* the select once the context is cancelled.
C26_StorageFaultsIsolated ==
    [][/\ \A p \in SProcs :
            /\ (spc[p] = "w_lock" /\ spc'[p] = "w_ret")
               => IF sloc'[p].err = "nil"
                  THEN totalErrors' = totalErrors /\ Len(rows') = Len(rows) + 1
                  ELSE /\ sloc'[p].err = "exec error"
                       /\ totalErrors' = totalErrors + 1
                       /\ rows' = rows /\ nextId' = nextId
                       /\ sloopPc' = sloopPc /\ cancelled' = cancelled /\ wg' = wg
            /\ (spc[p] = "w_ret" /\ spc'[p] # "w_ret" /\ sloc[p].err # "nil")
               => (spc'[p] = "idle" /\ rows' = rows
                     /\ sloopPc' = sloopPc /\ cancelled' = cancelled /\ wg' = wg)
       /\ (sloopPc = "lock" /\ sloopPc' = "sweep" /\ hist'.sweepErr)
          => (rows' = rows /\ nextId' = nextId)
       /\ sloopPc = "sweep" => sloopPc' \in {"sweep", "select"}
       /\ (sloopPc # "exited" /\ sloopPc' = "exited")
          => (sloopPc = "select" /\ cancelled)]_vars

\* A Write is returning a storage error while cleanupLoop, whose last cleanup
\* failed, waits for its next tick over a table that still has its rows.
C26_Witness ==
    \E p \in SProcs :
        /\ spc[p] = "w_ret" /\ sloc[p].err = "exec error"
        /\ ~dbClosed /\ ~cancelled
        /\ sloopPc = "select" /\ hist.sweepErr
        /\ Len(rows) >= 1

(***************************************************************************)
(* The life of a row.                                                      *)
(***************************************************************************)
\* C27: the rows change only by a successful insert, which adds one row whose
\* id is above every id given before and leaves the others as they are, or by
\* the cleanup of a store with maxRows > 0, which only removes rows; QueryLogs
\* changes nothing; with maxRows = 0 there is no cleanup and no row ever goes.
C27_RowsImmutableUntilSwept ==
    [][/\ \A i \in 1..Len(rows) : rows[i].id < nextId
       /\ nextId' >= nextId
       /\ rows' # rows =>
            \/ /\ \E p \in SProcs :
                     spc[p] = "w_lock" /\ spc'[p] = "w_ret" /\ sloc'[p].err = "nil"
               /\ Len(rows') = Len(rows) + 1
               /\ SubSeq(rows', 1, Len(rows)) = rows
               /\ rows'[Len(rows')].id >= nextId
               /\ nextId' > rows'[Len(rows')].id
            \/ /\ sloopPc = "lock" /\ sloopPc' = "sweep"
               /\ maxRows > 0
               /\ RowSet(rows') \subseteq RowSet(rows)
       /\ \A p \in SProcs :
            /\ (spc[p] = "w_lock" /\ spc'[p] = "w_ret" /\ sloc'[p].err = "nil")
               => Len(rows') = Len(rows) + 1
            /\ (spc'[p] # spc[p] /\ "q_ret" \in {spc[p], spc'[p]})
               => (rows' = rows /\ nextId' = nextId)
       /\ maxRows = 0 => (sloopPc = "none" /\ RowSet(rows) \subseteq RowSet(rows'))
      ]_vars

\* A store with maxRows = 0 answers a query over three rows.
C27_Witness ==
    \E p \in SProcs :
        /\ spc[p] = "q_ret" /\ sloc[p].err = "nil"
        /\ maxRows = 0 /\ sloopPc = "none"
        /\ Len(rows) = 3

(***************************************************************************)
(* The limiter's metrics.                                                  *)
(***************************************************************************)
\* C28: every return of allow adds one to the admitted counter when it allows
\* and one to the blocked counter when it denies, and nothing else moves either
\* counter (a request below the limited levels never reaches allow), so each
\* counter is the number of such decisions; and whenever rl.mu is free the gauge
\* is the size of the table.
C28_MetricsTrackDecisions ==
    /\ [](mu = "free" => activeClients = Size(requests))
    /\ [][IF \E p \in Procs : pc[p] = "decide" /\ pc'[p] = "idle"
          THEN /\ last'.kind = "allow"
               /\ last'.allowed =>
                    (requestsTotal' = requestsTotal + 1 /\ blockedTotal' = blockedTotal)
               /\ ~last'.allowed =>
                    (blockedTotal' = blockedTotal + 1 /\ requestsTotal' = requestsTotal)
          ELSE requestsTotal' = requestsTotal /\ blockedTotal' = blockedTotal]_vars

\* After admissions and a denial a sweep has emptied the table: both counters
\* have moved and the gauge is back at zero.
C28_Witness ==
    /\ mu = "free"
    /\ requestsTotal >= 2 /\ blockedTotal >= 1
    /\ Size(requests) = 0 /\ activeClients = 0

(***************************************************************************)
(* Validation of an entry, and the API key check.                          *)
(***************************************************************************)
\* C29 as stated: Validate accepts an entry exactly when its level is a
\* recognized one in any case, its message is non-blank and 1 to 1024 bytes
\* long after trimming, and its context, if any, has at most 10 keys and
\* serializes to at most 2048 bytes; an accepted entry's level is then in
\* canonical upper case.
C29_ValidateAcceptsExactly ==
    validated # NoValidated =>
        /\ validated.err = "nil" <=>
             /\ ToUpper(logEntry.level) \in allowedLogLevels
             /\ logEntry.message.trimmed >= 1
             /\ logEntry.message.trimmed <= MaxMessageLength
             /\ \/ logEntry.context.nil
                \/ /\ logEntry.context.keys <= MaxContextKeys
                   /\ logEntry.context.marshals
                   /\ logEntry.context.bytes <= MaxContextSizeBytes
        /\ validated.err = "nil" =>
             (validated.level = ToUpper(logEntry.level)
                /\ validated.level \in allowedLogLevels)

\* C30 as stated: a request whose level is below minLevel in severity order
\* reaches the handler whatever its key; a request whose level is at or above
\* minLevel in severity order, or is not a level, reaches the handler exactly
\* when its key is the valid one, and is otherwise answered 401 with an audit
\* event written.
C30_KeyRequiredAtOrAboveMinLevel ==
    authResp # NoAuthResp =>
        LET level == ToUpper(authReq.level)
            below == /\ level \in allowedLogLevels
                     /\ orderMap[level] < orderMap[authReq.minLevel]
            keyOk == authReq.key # "" /\ authReq.key = authReq.validKey
        IN IF below
           THEN authResp.next
           ELSE /\ authResp.next <=> keyOk
                /\ ~authResp.next =>
                     (authResp.status = 401 /\ authResp.audit = "api_key_check")

(***************************************************************************)
(* Capacity, quotas and levels of the rate limiter.                        *)
(***************************************************************************)
\* C33: for maxClients >= 1 the table never holds more than maxClients + 1
\* windows, and it holds at most maxClients when cleanup returns.
C33_TableWithinCapacityPlusOne ==
    /\ [](maxClients >= 1 => Size(requests) <= maxClients + 1)
    /\ [][(maxClients >= 1 /\ loopPc = "evict" /\ loopPc' = "select")
            => Size(requests') <= maxClients]_vars

\* With maxClients = 1 a third client has been admitted and the table holds two
\* windows.
C33_Witness ==
    /\ maxClients = 1
    /\ requestsTotal = 3
    /\ Size(requests) = 2
    /\ last.kind = "allow" /\ last.evicted # {}

\* C37 as stated: for every maxClients the constructor accepts, a cleanup that
\* has started returns and releases rl.mu, and a request waiting for rl.mu in
\* allow is served.
C37_SweepTerminates ==
    /\ (loopPc = "evict") ~> (loopPc = "select" /\ mu # Sweeper)
    /\ \A p \in SeqProcs : (pc[p] = "lock") ~> (pc[p] = "idle")

\* C34 as stated, for two decisions in a row on one key: after a denial, the
\* next decision for the same key at the same quota, made before the window
\* that was denied has run out, is a denial too, whatever happened to the
\* table in between.
C34_DeniedUntilWindowElapsed ==
    [][\A p \in Procs :
         (/\ pc[p] = "decide" /\ pc'[p] = "idle"
          /\ last.kind = "allow" /\ ~last.allowed
          /\ last'.ip = last.ip
          /\ last'.maxReq = last.maxReq
          /\ last'.at - last.newFirstSeen < WindowCfg)
         => ~last'.allowed]_vars

C32_WriteInsideCriticalSection ==
    /\ [](\A p \in SProcs : spc[p] \in {"w_count", "w_out", "w_ret"} => smu = p)
    /\ [][\A p \in SProcs :
            (/\ spc'[p] # spc[p]
             /\ spc'[p] \in {"w_out", "w_ret"}
             /\ sloc'[p].err # "nil")
            => totalErrors' = totalErrors + 1]_vars

\* C40: the rows of a result come in chronological order, the later instant
\* first, whatever UTC offsets their timestamps were written with.
C40_TextOrderIsChronological ==
    \A p \in Answered :
        \A i, j \in 1..Len(sloc[p].result) :
            i < j => sloc[p].result[i].timestamp.sec >= sloc[p].result[j].timestamp.sec

\* C38: under fair scheduling every call of Close returns, whatever the sweep
\* loop and concurrent calls of Write and QueryLogs are doing when it starts.
C38_CloseTerminates == (closePc # "idle") ~> (closePc = "idle")

\* Close has returned after its cancel found a sweep holding l.mu, while a
\* Write waits for the lock.
C38_Witness ==
    /\ closePc = "idle"
    /\ Len(closeRet) = 1
    /\ hist.closeWaited
    /\ sloopPc = "exited"
    /\ \E p \in SProcs : spc[p] = "w_lock"

\* C39: with maxRows > 0 and no sweep failing, a table that holds more than
\* maxRows rows holds at most maxRows again later, unless Close has stopped the
\* sweep.
C39_SweepRestoresBound ==
    ([]~hist.sweepErr)
        => ((maxRows > 0 /\ Len(rows) > maxRows) ~> (Len(rows) <= maxRows \/ cancelled))

\* A sweep has brought a table of more than maxRows rows back to maxRows, with
\* the store still open.
C39_Witness ==
    /\ maxRows > 0
    /\ sloopPc = "sweep" /\ ~hist.sweepErr
    /\ hist.dropped = 1
    /\ Len(rows) = maxRows
    /\ nWrites = MaxAppends
    /\ ~cancelled

\* The lifecycle state the store is in: Opening until NewSQLiteLogger returns,
\* Failed when it returned an error, Ready until Close cancels the sweep,
\* Closing until Close has released the handle, Closed from then on.
Phase ==
    IF opening.ret = "none" THEN "Opening"
    ELSE IF opening.ret = "error" THEN "Failed"
    ELSE IF dbClosed THEN "Closed"
    ELSE IF cancelled THEN "Closing"
    ELSE "Ready"

\* The lifecycle's transitions.
PhaseSteps ==
    {<<"Opening", "Ready">>, <<"Opening", "Failed">>, <<"Ready", "Closing">>,
     <<"Closing", "Closed">>}

\* What opening and closing leave behind: a store that opened has the table and
\* the index; a failed opening holds no open handle and has started no sweep; a
\* closed store has no sweep loop left; and the phases follow PhaseSteps.
LifecycleFrame ==
    /\ [](opening.ret = "ok" => opening.table /\ opening.index)
    /\ [](Phase = "Failed"
            => opening.db \in {"none", "closed"} /\ sloopPc = "none" /\ wg = 0)
    /\ [](Phase = "Closed" => sloopPc \in {"none", "exited"})
    /\ [][Phase' # Phase => <<Phase, Phase'>> \in PhaseSteps]_vars

\* p's Write or QueryLogs succeeds in this step.
Served(p) ==
    /\ spc'[p] # spc[p]
    /\ spc'[p] \in {"w_ret", "q_ret"}
    /\ sloc'[p].err = "nil"

\* C31 as stated: the phases are visited in the order Opening, Ready, Closing,
\* Closed, a failed opening releases the handle and starts no sweep, and Write
\* and QueryLogs are served and the sweep runs only in Ready.
C31_ServedOnlyWhenReady ==
    /\ LifecycleFrame
    /\ [](sloopPc = "sweep" => Phase = "Ready")
    /\ [][\A p \in SProcs : Served(p) => Phase = "Ready"]_vars

\* C31: the phases are visited in the order Opening, Ready, Closing, Closed,
\* Closed is terminal, a store that opened has its table and index, a failed
\* opening releases the handle and starts no sweep, a closed store has no sweep
\* loop left, and Write and QueryLogs are served and the sweep runs only in
\* Ready and in Closing, never before the store opened or after it closed.
C31_Lifecycle ==
    /\ LifecycleFrame
    /\ [](sloopPc = "sweep" => Phase \in {"Ready", "Closing"})
    /\ [][\A p \in SProcs : Served(p) => Phase \in {"Ready", "Closing"}]_vars

\* The store opened on a new file, three entries were written, Close stopped
\* the sweep and released the handle, and a Write after it is failing.
C31_Witness ==
    /\ Phase = "Closed"
    /\ closePc = "idle" /\ closeRet = <<"nil">>
    /\ sloopPc = "exited"
    /\ Len(rows) >= 1
    /\ spc["g1"] = "w_ret" /\ sloc["g1"].err = "exec error"

====
